---- MODULE Spec2Model ----
(***************************************************************************)
(* A model of the ranked.vote report pipeline (report_pipeline/src):       *)
(*   - the pipeline orchestrator of commands/report.rs (cache policy,      *)
(*     sequential and NIST batch paths, parallel jurisdiction workers,     *)
(*     index.json);                                                        *)
(*   - the nyc ballot normalizer of normalizers/nyc.rs;                    *)
(*   - the format adapters of formats/ (NIST SP 1500 single and batch      *)
(*     readers, Dominion RCR, the Maine workbook reader, the Minneapolis   *)
(*     CSV and workbook reader);                                           *)
(*   - the pure functions of formats/nist_sp_1500/: the reduction of       *)
(*     marks to choices (ballot.rs), the resolution of the CVR path        *)
(*     (path.rs) and the extraction of marks from a CSV record             *)
(*     (csv_parser.rs).                                                    *)
(* Each part has its own specification over the same variables; the        *)
(* variables of the other parts stay at their idle values.                 *)
(***************************************************************************)
EXTENDS Integers, Sequences, FiniteSets, TLC

VARIABLES
    \* ---- pipeline orchestrator (commands/report.rs) ----
    jurisdictions,        \* the metadata read_meta returns (a sequence of jurisdictions)
    raw_kind,             \* what lies at <raw>/<jurisdiction>/<election>/<cvr>: "dir" or "zip"
    report_files,         \* report_dir: file key -> content of report.json, or NoFile
    preprocessed_files,   \* preprocessed_dir: file key -> content of normalized.json.gz, or NoFile
    index_json,           \* report_dir/index.json: the elections list, or NoFile
    force_preprocess,     \* flag of the running invocation of report
    force_report,         \* flag of the running invocation of report
    pc,                   \* "idle" | "running" | "done": position of report()
    worker,               \* per jurisdiction: position and locals of its process_jurisdiction
    run,                  \* number of invocations of report started so far
    jurisdiction_filter,  \* the --jurisdiction filter of the running invocation, or none
    \* history of the running invocation, per contest
    before,               \* cache files seen when the contest's closure started
    ops,                  \* the I/O and generator calls the closure made, in order
    entry_of,             \* the ContestIndexEntry the closure returned, or NoEntry
    prev_run,             \* what the previous invocation left: its flags and its index
    deleted,              \* the report.json files deleted since the last invocation ended
    \* ---- ballot normalizer (normalizers/mod.rs, normalizers/nyc.rs) ----
    nyc_election,         \* the Election handed to normalize_election("nyc", _)
    nyc_normalized,       \* the NormalizedElection it returned, or none yet
    \* ---- NIST adapter (formats/nist_sp_1500/mod.rs) ----
    nist_path,            \* what path.join(cvr) holds: a directory, a ZIP or nothing
    nist_contests,        \* the (contest id, loader params) list of the election
    nist_batch,           \* the map nist_batch_reader returned, or none yet
    nist_single,          \* a contest and the Election nist_ballot_reader returned for it
    \* ---- Dominion RCR adapter (formats/dominion_rcr/parser.rs) ----
    rcr_input,            \* the RCR file handed to parse_rcr_file
    rcr_election,         \* the Election it returned, or none yet
    \* ---- Maine adapter (formats/us_me/mod.rs) ----
    me_files,             \* the workbooks named by the `files` parameter, in its order
    me_results,           \* per file: what its parallel worker returned, or none yet
    me_order,             \* the files in the order in which their workers completed
    me_election,          \* the Election maine_ballot_reader returned, or none yet
    \* ---- Minneapolis adapter (formats/us_mn_mpls/mod.rs) ----
    mpls_file,            \* the file named by the `file` parameter: its extension and records
    mpls_election,        \* what mpls_ballot_reader returned (an Election or a panic), or none yet
    \* ---- NIST mark reduction (formats/nist_sp_1500/ballot.rs) ----
    bal_input,            \* the marks, candidate map and dropped write-in handed over
    bal_choices,          \* the choices the functions returned for them, or none yet
    \* ---- NIST path resolution (formats/nist_sp_1500/path.rs) ----
    path_input,           \* the file system, the base path and the cvr parameter
    path_resolved,        \* what resolve_cvr_path and detect_cvr_source returned, or none yet
    \* ---- NIST CSV mark extraction (formats/nist_sp_1500/csv_parser.rs) ----
    csv_input,            \* the column map of the contests and one CSV record
    csv_marks             \* the marks both extractors returned for it, or none yet

pipeVars == <<jurisdictions, raw_kind, report_files, preprocessed_files, index_json,
              force_preprocess, force_report, pc, worker, run, jurisdiction_filter,
              before, ops, entry_of, prev_run, deleted>>

nycVars == <<nyc_election, nyc_normalized>>

nistVars == <<nist_path, nist_contests, nist_batch, nist_single>>

rcrVars == <<rcr_input, rcr_election>>

meVars == <<me_files, me_results, me_order, me_election>>

mplsVars == <<mpls_file, mpls_election>>

balVars == <<bal_input, bal_choices>>

pathVars == <<path_input, path_resolved>>

csvVars == <<csv_input, csv_marks>>

\* what each part of the model leaves alone

notPipeVars == <<nycVars, nistVars, rcrVars, meVars, mplsVars, balVars, pathVars, csvVars>>
notNycVars == <<pipeVars, nistVars, rcrVars, meVars, mplsVars, balVars, pathVars, csvVars>>
notNistVars == <<pipeVars, nycVars, rcrVars, meVars, mplsVars, balVars, pathVars, csvVars>>
notRcrVars == <<pipeVars, nycVars, nistVars, meVars, mplsVars, balVars, pathVars, csvVars>>
notMeVars == <<pipeVars, nycVars, nistVars, rcrVars, mplsVars, balVars, pathVars, csvVars>>
notMplsVars == <<pipeVars, nycVars, nistVars, rcrVars, meVars, balVars, pathVars, csvVars>>
notBalVars == <<pipeVars, nycVars, nistVars, rcrVars, meVars, mplsVars, pathVars, csvVars>>
notPathVars == <<pipeVars, nycVars, nistVars, rcrVars, meVars, mplsVars, balVars, csvVars>>
notCsvVars == <<pipeVars, nycVars, nistVars, rcrVars, meVars, mplsVars, balVars, pathVars>>

vars == <<pipeVars, nycVars, nistVars, rcrVars, meVars, mplsVars, balVars, pathVars, csvVars>>

----------------------------------------------------------------------------
(* Bounds of the model *)

\* invocations of report in one behaviour
MaxRuns == 2

\* rank positions of a ballot handed to the normalizer
MaxChoices == 3

----------------------------------------------------------------------------
(* Strings are sequences of character codes, compared as Rust compares     *)
(* String: lexicographically by code unit.                                 *)

Slash == 47

StrLess(a, b) ==
    \/ \E i \in 1..Len(a) :
          /\ i <= Len(b)
          /\ \A k \in 1..(i - 1) : a[k] = b[k]
          /\ a[i] < b[i]
    \/ /\ Len(a) < Len(b)
       /\ \A k \in 1..Len(a) : a[k] = b[k]

\* format!("{}/{}", jurisdiction.path, election_path)
format_path(jpath, epath) == jpath \o <<Slash>> \o epath

\* Ord of the tuple (&date, &path): date first, then path
KeyLess(a, b) ==
    \/ StrLess(a.date, b.date)
    \/ a.date = b.date /\ StrLess(a.path, b.path)

----------------------------------------------------------------------------
(* Metadata *)

NoParam == "none"
\* a `contest` param that is absent or does not parse as u32
NoContest == -1
\* Option values are sequences of at most one element: a missing file, a
\* closure that returned None
NoFile == << >>
NoEntry == << >>
Some(x) == <<x>>

\* a Contest of the metadata: office and the loader params the pipeline reads
Contest(office, cvr, contest) ==
    [office |-> office, cvr |-> cvr, contest |-> contest]

ElectionMetadata(epath, date, fmt, contests) ==
    [path |-> epath, date |-> date, data_format |-> fmt, contests |-> contests]

Jurisdiction(jpath, elections) ==
    [path |-> jpath, elections |-> elections]

\* the dates "10" and "2": as strings "10" sorts before "2"
Dates == {<<49, 48>>, <<50>>}

\* Two jurisdictions "a" and "ab". "a" holds one election of two contests
\* (the NIST batch candidate); "ab" holds a one-contest election and an
\* election without contests.
Metadata(fmt, cvr2, id2, d1, d2, d3) ==
    << Jurisdiction(<<97>>,
          << ElectionMetadata(<<49>>, d1, fmt,
                << Contest("o1", "cvr_a", 1), Contest("o2", cvr2, id2) >>) >>),
       Jurisdiction(<<97, 98>>,
          << ElectionMetadata(<<49>>, d2, "us_me", << Contest("o1", "f", 1) >>),
             ElectionMetadata(<<50>>, d3, "dominion_rcr", << >>) >>) >>

\* The metadata with both cvr params of the first election chosen, each a
\* path, the empty string or absent; the one-contest election of "ab" has
\* the format of the first election.
CvrMetadata(fmt, cvr1, cvr2) ==
    << Jurisdiction(<<97>>,
          << ElectionMetadata(<<49>>, <<50>>, fmt,
                << Contest("o1", cvr1, 1), Contest("o2", cvr2, 2) >>) >>),
       Jurisdiction(<<97, 98>>,
          << ElectionMetadata(<<49>>, <<50>>, fmt, << Contest("o1", cvr1, 1) >>),
             ElectionMetadata(<<50>>, <<50>>, "dominion_rcr", << >>) >>) >>

CvrParams == {"cvr_a", "cvr_b", "", NoParam}

\* The first election is not NIST, or NIST with two cvr params (both go
\* through process_contest), or NIST with one shared cvr param (the batch
\* path), its two contests having different or equal contest ids.
FirstElectionChoices ==
    { <<"us_me", "cvr_a", 2>>, <<"nist_sp_1500", "cvr_b", 2>>,
      <<"nist_sp_1500", "cvr_a", 2>>, <<"nist_sp_1500", "cvr_a", 1>> }

\* the metadata with the election dates in ds
MetadataChoices(ds) ==
    { Metadata(v[1], v[2], v[3], d1, d2, d3) :
        v \in FirstElectionChoices, d1 \in ds, d2 \in ds, d3 \in ds }

JIdx == 1..Len(jurisdictions)
EIdx(j) == 1..Len(jurisdictions[j].elections)
CIdx(j, e) == 1..Len(jurisdictions[j].elections[e].contests)

ContestKeys == { <<j, e, k>> : j \in 1..2, e \in 1..2, k \in 1..2 }

\* the contests the metadata holds
AllContests ==
    { ck \in ContestKeys :
        /\ ck[1] \in JIdx
        /\ ck[2] \in EIdx(ck[1])
        /\ ck[3] \in CIdx(ck[1], ck[2]) }

TheElection(j, e) == jurisdictions[j].elections[e]
TheContest(ck) == TheElection(ck[1], ck[2]).contests[ck[3]]

\* <dir>/<jurisdiction.path>/<election_path>/<contest.office>/: the directory of
\* the two cache files of a contest
FileKey(ck) ==
    <<jurisdictions[ck[1]].path, TheElection(ck[1], ck[2]).path, TheContest(ck).office>>

\* the cache directories of the metadata's contests
FileKeys == { FileKey(ck) : ck \in AllContests }

----------------------------------------------------------------------------
(* Contents of the cache files and the opaque external functions *)

\* ElectionPreprocessed: the contest's info and its normalized ballots. The
\* ballots are "raw" when computed from the raw data of this behaviour and
\* "stale" in a cache file that an earlier version of the data left.
ElectionPreprocessed(office, ballots) == [office |-> office, ballots |-> ballots]

\* preprocess_election / preprocess_election_from_data: external
preprocess_election(contest) == ElectionPreprocessed(contest.office, "raw")

\* generate_report: external, a function of the preprocessed election alone
generate_report(preprocessed) ==
    [info |-> [office |-> preprocessed.office], winner |-> preprocessed.ballots]

\* a cache file that exists and cannot be deserialized
Corrupt == [corrupt |-> TRUE]

\* a report.json that was on disk before the first invocation
OldReport(office) == [info |-> [office |-> office], winner |-> "old"]

\* the projection of a report into its ContestIndexEntry
ContestIndexEntry(report) ==
    [office |-> report.info.office, winner |-> report.winner]

ElectionIndexEntry(j, e, contest_index_entries) ==
    [path |-> format_path(jurisdictions[j].path, TheElection(j, e).path),
     date |-> TheElection(j, e).date,
     contests |-> contest_index_entries]

----------------------------------------------------------------------------
(* report(): the index is sorted with a stable sort under the reversed     *)
(* comparison (&b.date, &b.path).cmp(&(&a.date, &a.path))                  *)

\* Ordering::Less of the comparator of sort_by: a goes before b
\* a comparison that orders the entries ascending
sort_cmp_less_ascending(a, b) == KeyLess(a, b)

sort_cmp_less(a, b) == KeyLess(b, a)

RECURSIVE insert_sorted(_, _)
\* stable insertion: x goes after every element that is not greater
insert_sorted(s, x) ==
    IF s = << >> THEN <<x>>
    ELSE IF sort_cmp_less(x, Head(s)) THEN <<x>> \o s
         ELSE <<Head(s)>> \o insert_sorted(Tail(s), x)

RECURSIVE sort_by(_)
\* slice::sort_by: a stable sort
sort_by(s) ==
    IF s = << >> THEN << >>
    ELSE insert_sorted(sort_by(SubSeq(s, 1, Len(s) - 1)), s[Len(s)])

RECURSIVE flatten(_)
\* jurisdiction_results.into_iter().flatten().collect()
flatten(ss) ==
    IF ss = << >> THEN << >> ELSE Head(ss) \o flatten(Tail(ss))

----------------------------------------------------------------------------
(* process_election: the choice between the two paths *)

first_cvr(election) == election.contests[1].cvr

same_cvr(election) ==
    \A i \in 1..Len(election.contests) : election.contests[i].cvr = first_cvr(election)

is_nist_batch(election) ==
    /\ election.data_format = "nist_sp_1500"
    /\ Len(election.contests) > 1

\* the election goes through process_nist_election_batch
uses_batch(election) ==
    /\ is_nist_batch(election)
    /\ same_cvr(election)
    /\ first_cvr(election) # NoParam

\* contests_with_ids: the contest ids of the contests whose `contest` param parses
contests_with_ids(election) ==
    { election.contests[i].contest : i \in 1..Len(election.contests) } \ {NoContest}

\* the keys of the map nist_batch_reader returns: every requested contest id
\* when the cvr path is a directory, none otherwise
nist_batch_reader_keys(kind, ids) ==
    IF ids = {} THEN {}
    ELSE IF kind # "dir" THEN {}
    ELSE ids

----------------------------------------------------------------------------
(* The orchestrator: report, process_jurisdiction, process_election,       *)
(* process_contest, process_nist_election_batch                            *)

\* a jurisdiction worker before its first election
FreshWorker ==
    [e |-> 1, k |-> 0, phase |-> "election",
     contest_index_entries |-> << >>, election_results |-> << >>,
     elections_by_contest |-> {}, released_early |-> {}, held |-> {}]

NoHistory == [ck \in ContestKeys |-> << >>]

\* the states before the first invocation: one of the metadata in metas, and
\* cache directories of which those in a set of caches hold old files, those
\* in a set of corrupts being files that cannot be deserialized
PipeInit(metas, caches, corrupts) ==
    /\ jurisdictions \in metas
    /\ raw_kind \in IF jurisdictions # << >> /\ uses_batch(TheElection(1, 1))
                     THEN {"dir", "zip"} ELSE {"dir"}
    /\ report_files \in
          { [fk \in FileKeys |-> IF fk \in held \cap bad THEN Some(Corrupt)
                                 ELSE IF fk \in held THEN Some(OldReport(fk[3]))
                                 ELSE NoFile] :
              held \in caches, bad \in corrupts }
    /\ preprocessed_files \in
          { [fk \in FileKeys |-> IF fk \in held \cap bad THEN Some(Corrupt)
                                 ELSE IF fk \in held
                                 THEN Some(ElectionPreprocessed(fk[3], "stale"))
                                 ELSE NoFile] :
              held \in caches, bad \in corrupts }
    /\ index_json = NoFile
    /\ force_preprocess = FALSE
    /\ force_report = FALSE
    /\ pc = "idle"
    /\ worker = [j \in JIdx |-> FreshWorker]
    /\ run = 0
    /\ jurisdiction_filter = << >>
    /\ before = NoHistory
    /\ ops = NoHistory
    /\ entry_of = NoHistory
    /\ prev_run = [flags |-> FALSE, index |-> NoFile, runs |-> 0, deleted |-> {}]
    /\ deleted = {}

\* every jurisdiction goes through, whatever the filter
filtered_jurisdictions_unfiltered(filter) == [j \in JIdx |-> j]

\* report(), lines 378-386: the jurisdictions the filter keeps, by their
\* position in the metadata, in metadata order
filtered_jurisdictions(filter) ==
    SelectSeq([j \in JIdx |-> j],
              LAMBDA j : filter = << >> \/ jurisdictions[j].path = filter[1])

\* an invocation that goes on to the parallel iterator and to the write of
\* index.json whatever the number of jurisdictions it keeps
report_start_without_return(filter) ==
    /\ pc \in {"idle", "done", "panicked"}
    /\ run < MaxRuns
    /\ \E fp \in BOOLEAN, fr \in BOOLEAN :
          /\ force_preprocess' = fp
          /\ force_report' = fr
    /\ jurisdiction_filter' = filter
    /\ pc' = "running"
    /\ run' = run + 1
    /\ worker' = [j \in { filtered_jurisdictions(filter)[i] :
                            i \in 1..Len(filtered_jurisdictions(filter)) } |-> FreshWorker]
    /\ before' = NoHistory
    /\ ops' = NoHistory
    /\ entry_of' = NoHistory
    /\ prev_run' = [flags |-> force_preprocess \/ force_report,
                    index |-> index_json, runs |-> run, deleted |-> deleted]
    /\ deleted' = {}
    /\ UNCHANGED <<jurisdictions, raw_kind, report_files, preprocessed_files, index_json>>

\* report(), lines 363-413: the invocation starts with its flags and its
\* filter and hands every jurisdiction it keeps to the parallel iterator; with
\* none kept it returns at once (lines 388-398)
report_start(filter) ==
    /\ pc \in {"idle", "done", "panicked"}
    /\ run < MaxRuns
    /\ \E fp \in BOOLEAN, fr \in BOOLEAN :
          /\ force_preprocess' = fp
          /\ force_report' = fr
    /\ jurisdiction_filter' = filter
    /\ pc' = IF filtered_jurisdictions(filter) = << >> THEN "done" ELSE "running"
    /\ run' = run + 1
    /\ worker' = [j \in { filtered_jurisdictions(filter)[i] :
                            i \in 1..Len(filtered_jurisdictions(filter)) } |-> FreshWorker]
    /\ before' = NoHistory
    /\ ops' = NoHistory
    /\ entry_of' = NoHistory
    /\ prev_run' = [flags |-> force_preprocess \/ force_report,
                    index |-> index_json, runs |-> run, deleted |-> deleted]
    /\ deleted' = {}
    /\ UNCHANGED <<jurisdictions, raw_kind, report_files, preprocessed_files, index_json>>

\* process_election, lines 249-281: the head of an election. On the batch
\* path process_nist_election_batch reads all contests at once (lines 124-142).
process_election(j) ==
    /\ pc = "running"
    /\ worker[j].phase = "election"
    /\ worker[j].e \in EIdx(j)
    /\ LET election == TheElection(j, worker[j].e)
       IN worker' = [worker EXCEPT ![j] =
             [@ EXCEPT !.k = 0,
                       !.contest_index_entries = << >>,
                       !.phase = IF uses_batch(election) THEN "batch" ELSE "contests",
                       !.elections_by_contest =
                           IF uses_batch(election)
                           THEN nist_batch_reader_keys(raw_kind, contests_with_ids(election))
                           ELSE {}]]
    /\ UNCHANGED <<jurisdictions, raw_kind, report_files, preprocessed_files, index_json,
                   force_preprocess, force_report, pc, run, jurisdiction_filter, before, ops,
                   entry_of, prev_run, deleted>>

\* what a contest closure leaves: the two cache files, the calls it made, the
\* entry it returned, the objects it loaded or generated, those it held when
\* it built the index entry and those it still holds when it returns
Outcome(report_file, preprocessed_file, calls, entry, objects, held_at_entry, held) ==
    [report_file |-> report_file, preprocessed_file |-> preprocessed_file,
     calls |-> calls, entry |-> entry, released_early |-> objects \ held_at_entry,
     held |-> held, panicked |-> FALSE]

\* read_serialized returns the value itself (lines 48, 59, 197, 209): when the
\* file cannot be read the closure cannot go on and unwinds, which releases
\* what it holds; the files are as the calls made so far left them
Panic(report_file, preprocessed_file, calls) ==
    [report_file |-> report_file, preprocessed_file |-> preprocessed_file,
     calls |-> calls, entry |-> NoEntry, released_early |-> {}, held |-> {},
     panicked |-> TRUE]

\* a release that releases nothing
drop_held_nothing(held, x) == held

\* drop(x), lines 82, 105, 230, 231
drop_held(held, x) == held \ {x}

\* a policy without the full cache hit: the report is always regenerated
process_contest_outcome_no_cache_hit(contest, report_file, preprocessed_file, fp, fr) ==
    LET cached == preprocessed_file # NoFile /\ ~fp
        preprocessed == IF cached THEN preprocessed_file[1]
                        ELSE preprocess_election(contest)
        contest_report == generate_report(preprocessed)
    IN Outcome(Some(contest_report), Some(preprocessed),
               (IF cached THEN <<"read_preprocessed">>
                ELSE <<"preprocess", "write_preprocessed">>)
                 \o <<"generate_report", "write_report">>,
               Some(ContestIndexEntry(contest_report)), {}, {}, {})

\* process_contest, lines 41-107
process_contest_outcome(contest, report_file, preprocessed_file, fp, fr) ==
    IF report_file # NoFile /\ preprocessed_file # NoFile /\ ~fr /\ ~fp
    THEN IF report_file[1] = Corrupt
         THEN Panic(report_file, preprocessed_file, <<"read_report">>)
         ELSE Outcome(report_file, preprocessed_file, <<"read_report">>,
                      Some(ContestIndexEntry(report_file[1])),
                      {"report"}, {"report"}, drop_held({"report"}, "report"))
    ELSE LET cached == preprocessed_file # NoFile /\ ~fp
             preprocessed == IF cached THEN preprocessed_file[1]
                             ELSE preprocess_election(contest)
             contest_report == generate_report(preprocessed)
         IN IF cached /\ preprocessed_file[1] = Corrupt
            THEN Panic(report_file, preprocessed_file, <<"read_preprocessed">>)
            ELSE Outcome(Some(contest_report), Some(preprocessed),
                         (IF cached THEN <<"read_preprocessed">>
                          ELSE <<"preprocess", "write_preprocessed">>)
                            \o <<"generate_report", "write_report">>,
                         Some(ContestIndexEntry(contest_report)),
                         {"preprocessed", "report"},
                         drop_held({"preprocessed", "report"}, "preprocessed"),
                         drop_held(drop_held({"preprocessed", "report"}, "preprocessed"),
                                   "report"))

\* the closure of process_nist_election_batch, lines 181-233, for a contest
\* whose raw election the batch map held
batch_contest_outcome(contest, report_file, preprocessed_file, fp, fr) ==
    LET regenerate == fp \/ preprocessed_file = NoFile
        preprocessed == IF regenerate THEN preprocess_election(contest)
                        ELSE preprocessed_file[1]
        preprocessed_calls == IF regenerate THEN <<"preprocess", "write_preprocessed">>
                              ELSE <<"read_preprocessed">>
        fresh == fr \/ report_file = NoFile
        report == IF fresh THEN generate_report(preprocessed) ELSE report_file[1]
    IN IF ~regenerate /\ preprocessed_file[1] = Corrupt
       THEN Panic(report_file, preprocessed_file, preprocessed_calls)
       ELSE IF ~fresh /\ report_file[1] = Corrupt
       THEN Panic(report_file, Some(preprocessed), preprocessed_calls \o <<"read_report">>)
       ELSE Outcome(Some(report), Some(preprocessed),
                    preprocessed_calls
                      \o (IF fresh THEN <<"generate_report", "write_report">>
                          ELSE <<"read_report">>),
                    Some(ContestIndexEntry(report)),
                    {"preprocessed", "report"}, {"preprocessed", "report"},
                    drop_held(drop_held({"preprocessed", "report"}, "report"),
                              "preprocessed"))

\* the state after a contest closure of worker j with outcome out
ContestDone(j, ck, out) ==
    /\ report_files' = [report_files EXCEPT ![FileKey(ck)] = out.report_file]
    /\ preprocessed_files' =
          [preprocessed_files EXCEPT ![FileKey(ck)] = out.preprocessed_file]
    /\ before' = [before EXCEPT ![ck] =
          Some([report_file |-> report_files[FileKey(ck)],
                preprocessed_file |-> preprocessed_files[FileKey(ck)]])]
    /\ ops' = [ops EXCEPT ![ck] = out.calls]
    /\ entry_of' = [entry_of EXCEPT ![ck] = out.entry]

\* process_contest for the next contest of the election (sequential path)
process_contest(j) ==
    /\ pc = "running"
    /\ worker[j].phase = "contests"
    /\ worker[j].k < Len(TheElection(j, worker[j].e).contests)
    /\ LET ck == <<j, worker[j].e, worker[j].k + 1>>
           out == process_contest_outcome(TheContest(ck), report_files[FileKey(ck)],
                     preprocessed_files[FileKey(ck)], force_preprocess, force_report)
       IN /\ ContestDone(j, ck, out)
          /\ worker' = [worker EXCEPT ![j] =
                [@ EXCEPT !.k = @ + 1,
                          !.phase = IF out.panicked THEN "panicked" ELSE @,
                          !.held = @ \cup out.held,
                          !.released_early = out.released_early,
                          !.contest_index_entries = @ \o out.entry]]
    /\ UNCHANGED <<jurisdictions, raw_kind, index_json, force_preprocess, force_report,
                   pc, run, jurisdiction_filter, prev_run, deleted>>

\* the filter_map closure of process_nist_election_batch for the next contest,
\* lines 148-234: a contest whose `contest` param does not parse, or whose raw
\* election is not (or no longer) in the batch map, yields no entry
process_nist_election_batch(j) ==
    /\ pc = "running"
    /\ worker[j].phase = "batch"
    /\ worker[j].k < Len(TheElection(j, worker[j].e).contests)
    /\ LET ck == <<j, worker[j].e, worker[j].k + 1>>
           contest == TheContest(ck)
           loaded == /\ contest.contest # NoContest
                     /\ contest.contest \in worker[j].elections_by_contest
           out == IF loaded
                  THEN batch_contest_outcome(contest, report_files[FileKey(ck)],
                          preprocessed_files[FileKey(ck)], force_preprocess, force_report)
                  ELSE Outcome(report_files[FileKey(ck)], preprocessed_files[FileKey(ck)],
                               << >>, NoEntry, {}, {}, {})
       IN /\ ContestDone(j, ck, out)
          /\ worker' = [worker EXCEPT ![j] =
                [@ EXCEPT !.k = @ + 1,
                          !.phase = IF out.panicked THEN "panicked" ELSE @,
                          !.held = @ \cup out.held,
                          !.released_early = out.released_early,
                          !.contest_index_entries = @ \o out.entry,
                          !.elections_by_contest = @ \ {contest.contest}]]
    /\ UNCHANGED <<jurisdictions, raw_kind, index_json, force_preprocess, force_report,
                   pc, run, jurisdiction_filter, prev_run, deleted>>

\* process_election, lines 322-328, and the step of process_jurisdiction to
\* the next election
process_election_entry(j) ==
    /\ pc = "running"
    /\ worker[j].phase \in {"contests", "batch"}
    /\ worker[j].k = Len(TheElection(j, worker[j].e).contests)
    /\ worker' = [worker EXCEPT ![j] =
          [@ EXCEPT !.e = @ + 1,
                    !.k = 0,
                    !.phase = IF worker[j].e = Len(jurisdictions[j].elections)
                              THEN "finished" ELSE "election",
                    !.contest_index_entries = << >>,
                    !.elections_by_contest = {},
                    !.released_early = {},
                    !.election_results =
                        Append(@, ElectionIndexEntry(j, worker[j].e,
                                                     worker[j].contest_index_entries))]]
    /\ UNCHANGED <<jurisdictions, raw_kind, report_files, preprocessed_files, index_json,
                   force_preprocess, force_report, pc, run, jurisdiction_filter, before, ops,
                   entry_of, prev_run, deleted>>

\* the Vec the parallel iterator collects: one result per jurisdiction kept,
\* in the order of the jurisdictions
jurisdiction_results ==
    [i \in 1..Len(filtered_jurisdictions(jurisdiction_filter)) |->
        worker[filtered_jurisdictions(jurisdiction_filter)[i]].election_results]

\* report(), lines 415-424: flatten, sort, write index.json
report_index ==
    /\ pc = "running"
    /\ \A j \in DOMAIN worker : worker[j].phase = "finished"
    /\ index_json' = Some(sort_by(flatten(jurisdiction_results)))
    /\ pc' = "done"
    /\ UNCHANGED <<jurisdictions, raw_kind, report_files, preprocessed_files,
                   force_preprocess, force_report, worker, run, jurisdiction_filter,
                   before, ops, entry_of, prev_run, deleted>>

\* between two invocations the user deletes a report.json
delete_report(fk) ==
    /\ pc = "done"
    /\ run < MaxRuns
    /\ report_files[fk] # NoFile
    /\ report_files' = [report_files EXCEPT ![fk] = NoFile]
    /\ deleted' = deleted \cup {fk}
    /\ UNCHANGED <<jurisdictions, raw_kind, preprocessed_files, index_json,
                   force_preprocess, force_report, pc, worker, run, jurisdiction_filter,
                   before, ops, entry_of, prev_run>>

\* the steps of a running invocation, and what happens between invocations
PipeSteps ==
    \/ \E j \in DOMAIN worker : process_election(j) /\ UNCHANGED notPipeVars
    \/ \E j \in DOMAIN worker : process_contest(j) /\ UNCHANGED notPipeVars
    \/ \E j \in DOMAIN worker : process_nist_election_batch(j) /\ UNCHANGED notPipeVars
    \/ \E j \in DOMAIN worker : process_election_entry(j) /\ UNCHANGED notPipeVars
    \/ report_index /\ UNCHANGED notPipeVars
    \/ \E fk \in FileKeys : delete_report(fk) /\ UNCHANGED notPipeVars

\* a panic of a contest closure aborts the invocation once the parallel
\* iterator has no worker left running (lines 401-413); index.json is not
\* written
report_panic ==
    /\ pc = "running"
    /\ \A j \in DOMAIN worker : worker[j].phase \in {"finished", "panicked"}
    /\ \E j \in DOMAIN worker : worker[j].phase = "panicked"
    /\ pc' = "panicked"
    /\ UNCHANGED <<jurisdictions, raw_kind, report_files, preprocessed_files, index_json,
                   force_preprocess, force_report, worker, run, jurisdiction_filter,
                   before, ops, entry_of, prev_run, deleted>>

\* invocations without a jurisdiction filter
PipeNext ==
    \/ report_start(<< >>) /\ UNCHANGED notPipeVars
    \/ PipeSteps

\* the filters of the invocations: the path of either jurisdiction, and a path
\* of no jurisdiction
Filters == { << >>, Some(<<97>>), Some(<<97, 98>>), Some(<<98>>) }

\* invocations with any of the filters
FilterNext ==
    \/ \E filter \in Filters : report_start(filter) /\ UNCHANGED notPipeVars
    \/ PipeSteps

\* the pipeline is not running: the other parts of the model are checked alone
PipeIdle ==
    /\ jurisdictions = << >>
    /\ raw_kind = "dir"
    /\ report_files = << >>
    /\ preprocessed_files = << >>
    /\ index_json = NoFile
    /\ force_preprocess = FALSE
    /\ force_report = FALSE
    /\ pc = "idle"
    /\ worker = << >>
    /\ run = MaxRuns
    /\ jurisdiction_filter = << >>
    /\ before = NoHistory
    /\ ops = NoHistory
    /\ entry_of = NoHistory
    /\ prev_run = [flags |-> FALSE, index |-> NoFile, runs |-> 0, deleted |-> {}]
    /\ deleted = {}

NycIdle ==
    /\ nyc_election = [candidates |-> << >>, ballots |-> << >>]
    /\ nyc_normalized = << >>

NistIdle ==
    /\ nist_path = [kind |-> "missing", manifest |-> << >>, entries |-> << >>]
    /\ nist_contests = << >>
    /\ nist_batch = << >>
    /\ nist_single = << >>

RcrIdle ==
    /\ rcr_input = [num_candidates |-> 0, candidates |-> << >>, ballots |-> << >>]
    /\ rcr_election = << >>

MeIdle ==
    /\ me_files = << >>
    /\ me_results = << >>
    /\ me_order = << >>
    /\ me_election = << >>

MplsIdle ==
    /\ mpls_file = << >>
    /\ mpls_election = << >>

BalIdle ==
    /\ bal_input = << >>
    /\ bal_choices = << >>

PathIdle ==
    /\ path_input = << >>
    /\ path_resolved = << >>

CsvIdle ==
    /\ csv_input = << >>
    /\ csv_marks = << >>

\* every combination of old cache files, one date per election
Init == PipeInit(MetadataChoices({<<50>>}), SUBSET FileKeys, {{}}) /\ NycIdle /\ NistIdle /\ RcrIdle /\ MeIdle /\ MplsIdle /\ BalIdle /\ PathIdle /\ CsvIdle

\* every combination of election dates, no old cache file
IndexInit == PipeInit(MetadataChoices(Dates), {{}}, {{}}) /\ NycIdle /\ NistIdle /\ RcrIdle /\ MeIdle /\ MplsIdle /\ BalIdle /\ PathIdle /\ CsvIdle

Next == PipeNext

Spec == Init /\ [][Next]_vars

SpecIndex == IndexInit /\ [][Next]_vars

\* a first election on the sequential or on the batch path, or a metadata
\* directory that holds no jurisdiction; no old cache file or all of them; the
\* invocations are filtered
FilterInit ==
    /\ PipeInit({ Metadata("us_me", "cvr_a", 2, <<50>>, <<50>>, <<50>>),
                  Metadata("nist_sp_1500", "cvr_a", 2, <<50>>, <<50>>, <<50>>),
                  << >> },
                {{}, FileKeys}, {{}})
    /\ NycIdle /\ NistIdle /\ RcrIdle /\ MeIdle /\ MplsIdle /\ BalIdle /\ PathIdle /\ CsvIdle

SpecFilter == FilterInit /\ [][FilterNext]_vars

\* invocations over cache directories that may hold corrupt files
CacheNext ==
    \/ report_start(<< >>) /\ UNCHANGED notPipeVars
    \/ PipeSteps
    \/ report_panic /\ UNCHANGED notPipeVars

\* every cache file exists, and any of them may be corrupt
CacheInit ==
    /\ PipeInit({ Metadata("us_me", "cvr_a", 2, <<50>>, <<50>>, <<50>>),
                  Metadata("nist_sp_1500", "cvr_a", 2, <<50>>, <<50>>, <<50>>) },
                {FileKeys}, SUBSET FileKeys)
    /\ NycIdle /\ NistIdle /\ RcrIdle /\ MeIdle /\ MplsIdle /\ BalIdle /\ PathIdle /\ CsvIdle

SpecCache == CacheInit /\ [][CacheNext]_vars

\* every combination of cvr params, no old cache file
CvrInit ==
    /\ PipeInit({ CvrMetadata(fmt, cvr1, cvr2) :
                    fmt \in {"nist_sp_1500", "us_me"}, cvr1 \in CvrParams,
                    cvr2 \in CvrParams },
                {{}}, {{}})
    /\ NycIdle /\ NistIdle /\ RcrIdle /\ MeIdle /\ MplsIdle /\ BalIdle /\ PathIdle /\ CsvIdle

SpecCvr == CvrInit /\ [][Next]_vars

----------------------------------------------------------------------------
(* The model of ballots (model::election) and the nyc normalizer *)

Vote(id) == [kind |-> "Vote", id |-> id]
Undervote == [kind |-> "Undervote", id |-> 0]
Overvote == [kind |-> "Overvote", id |-> 0]

Ballot(id, choices) == [id |-> id, choices |-> choices]

NormalizedBallot(id, choices, overvoted) ==
    [id |-> id, choices |-> choices, overvoted |-> overvoted]

\* the candidate ids of the ballots handed to the normalizer
NycCandidateIds == {0, 1}

NycChoices == { Vote(v) : v \in NycCandidateIds } \cup {Undervote, Overvote}

SeqsUpTo(S, n) == UNION { [1..k -> S] : k \in 0..n }

\* a loop that pushes every Vote, seen or not
RECURSIVE nyc_loop_no_dedup(_, _, _, _, _)
nyc_loop_no_dedup(choices, i, seen, new_choices, has_valid_votes) ==
    IF i > Len(choices)
    THEN [new_choices |-> new_choices, overvoted |-> FALSE,
          has_valid_votes |-> has_valid_votes]
    ELSE IF choices[i].kind = "Vote"
         THEN nyc_loop_no_dedup(choices, i + 1, seen \cup {choices[i].id},
                                Append(new_choices, choices[i].id), TRUE)
         ELSE IF choices[i].kind = "Overvote"
              THEN [new_choices |-> new_choices, overvoted |-> TRUE,
                    has_valid_votes |-> has_valid_votes]
              ELSE nyc_loop_no_dedup(choices, i + 1, seen, new_choices,
                                     has_valid_votes)

\* the loop of nyc_normalizer, lines 13-28, from choice i on
RECURSIVE nyc_loop(_, _, _, _, _)
nyc_loop(choices, i, seen, new_choices, has_valid_votes) ==
    IF i > Len(choices)
    THEN [new_choices |-> new_choices, overvoted |-> FALSE,
          has_valid_votes |-> has_valid_votes]
    ELSE IF choices[i].kind = "Vote"
         THEN IF choices[i].id \notin seen
              THEN nyc_loop(choices, i + 1, seen \cup {choices[i].id},
                            Append(new_choices, choices[i].id), TRUE)
              ELSE nyc_loop(choices, i + 1, seen, new_choices, has_valid_votes)
         ELSE IF choices[i].kind = "Overvote"
              THEN [new_choices |-> new_choices, overvoted |-> TRUE,
                    has_valid_votes |-> has_valid_votes]
              ELSE nyc_loop(choices, i + 1, seen, new_choices, has_valid_votes)

\* a normalizer that keeps inactive ballots, as the "simple" policy does
nyc_normalizer_keeps_inactive(ballot) ==
    LET r == nyc_loop(ballot.choices, 1, {}, << >>, FALSE)
    IN Some(NormalizedBallot(ballot.id, r.new_choices, r.overvoted))

\* nyc_normalizer, lines 4-36: Some(NormalizedBallot) or None
nyc_normalizer(ballot) ==
    LET r == nyc_loop(ballot.choices, 1, {}, << >>, FALSE)
    IN IF r.has_valid_votes
       THEN Some(NormalizedBallot(ballot.id, r.new_choices, r.overvoted))
       ELSE << >>

\* ballots.into_iter().filter_map(optional_normalizer).collect()
RECURSIVE filter_map_normalizer(_)
filter_map_normalizer(ballots) ==
    IF ballots = << >> THEN << >>
    ELSE nyc_normalizer(Head(ballots)) \o filter_map_normalizer(Tail(ballots))

\* an Election of at most two ballots "b1", "b2"
NycElections ==
    { [candidates |-> <<"A", "B">>,
       ballots |-> [i \in 1..Len(cs) |-> Ballot(<<"b", i>>, cs[i])]] :
        cs \in SeqsUpTo(SeqsUpTo(NycChoices, MaxChoices), 2) }

NycInit ==
    /\ nyc_election \in NycElections
    /\ nyc_normalized = << >>
    /\ PipeIdle
    /\ NistIdle
    /\ RcrIdle
    /\ MeIdle /\ MplsIdle /\ BalIdle /\ PathIdle /\ CsvIdle

\* normalize_election("nyc", election), normalizers/mod.rs lines 25-37
normalize_election ==
    /\ nyc_normalized = << >>
    /\ nyc_normalized' =
          Some([candidates |-> nyc_election.candidates,
                ballots |-> filter_map_normalizer(nyc_election.ballots)])
    /\ UNCHANGED nyc_election

NycNext == normalize_election /\ UNCHANGED notNycVars

SpecNyc == NycInit /\ [][NycNext]_vars

----------------------------------------------------------------------------
(* CandidateMap and the name normalizer (formats::common) *)

\* the canonical display name of a raw candidate string
normalize_name(name, aggressive) ==
    CASE name = "ALICE" -> "Alice"
      [] name = "BOB" -> "Bob"
      [] name = "CAROL" -> "Carol"
      [] name = "DAVE" -> "Dave"
      [] OTHER -> name

Candidate(name, candidate_type) == [name |-> name, candidate_type |-> candidate_type]

Election(candidates, ballots) == [candidates |-> candidates, ballots |-> ballots]

\* a CandidateMap is the sequence of its (external key, Candidate) pairs in
\* insertion order; the CandidateId of a pair is its index, from 0
CandidateMap_new == << >>

has_key(map, k) == \E i \in 1..Len(map) : map[i].key = k

add(map, k, candidate) ==
    IF has_key(map, k) THEN map
    ELSE Append(map, [key |-> k, candidate |-> candidate])

\* what the map answers for a key it does not hold (a panic or an Undervote)
UnknownKey == [kind |-> "UnknownKey", id |-> 0]

id_to_choice(map, k) ==
    IF has_key(map, k)
    THEN Vote((CHOOSE i \in 1..Len(map) : map[i].key = k) - 1)
    ELSE UnknownKey

into_vec(map) == [i \in 1..Len(map) |-> map[i].candidate]

----------------------------------------------------------------------------
(* The NIST adapter: nist_ballot_reader and nist_batch_reader *)

\* ':' of the ballot id "<filename>:<record_id>"
Colon == 58

\* the decimal digits of n
RECURSIVE to_string(_)
to_string(n) ==
    IF n < 10 THEN <<48 + n>> ELSE to_string(n \div 10) \o <<48 + (n % 10)>>

starts_with(str, prefix) ==
    Len(str) >= Len(prefix) /\ SubSeq(str, 1, Len(prefix)) = prefix

ends_with(str, suffix) ==
    /\ Len(str) >= Len(suffix)
    /\ SubSeq(str, Len(str) - Len(suffix) + 1, Len(str)) = suffix

\* "CvrExport" and ".json"
CvrExportPrefix == <<67, 118, 114, 69, 120, 112, 111, 114, 116>>
JsonSuffix == <<46, 106, 115, 111, 110>>

Mark(candidate_id, rank, is_ambiguous) ==
    [candidate_id |-> candidate_id, rank |-> rank, is_ambiguous |-> is_ambiguous]

ManifestCandidate(id, contest_id, candidate_type, description) ==
    [id |-> id, contest_id |-> contest_id, candidate_type |-> candidate_type,
     description |-> description]

ReaderParams(cvr, contest, drop_unqualified_write_in) ==
    [cvr |-> cvr, contest |-> contest,
     dropUnqualifiedWriteIn |-> drop_unqualified_write_in]

\* get_candidates, lines 44-76, from candidate i of the manifest on
RECURSIVE get_candidates_from(_, _, _, _, _, _)
get_candidates_from(list, i, contest_id, drop_unqualified_write_in, map, write_in_external_id) ==
    IF i > Len(list) THEN [map |-> map, write_in_external_id |-> write_in_external_id]
    ELSE IF list[i].contest_id # contest_id
         THEN get_candidates_from(list, i + 1, contest_id,
                                  drop_unqualified_write_in, map, write_in_external_id)
         ELSE IF drop_unqualified_write_in /\ list[i].candidate_type = "WriteIn"
              THEN get_candidates_from(list, i + 1, contest_id,
                                       drop_unqualified_write_in, map, Some(list[i].id))
              ELSE get_candidates_from(
                       list, i + 1, contest_id, drop_unqualified_write_in,
                       add(map, list[i].id,
                           Candidate(normalize_name(list[i].description, FALSE),
                                     list[i].candidate_type)),
                       write_in_external_id)

get_candidates(manifest, contest_id, drop_unqualified_write_in) ==
    get_candidates_from(manifest, 1, contest_id, drop_unqualified_write_in,
                        CandidateMap_new, << >>)

\* itertools group_by(|x| x.rank): the runs of consecutive marks of equal rank
RECURSIVE group_by(_)
group_by(marks) ==
    IF marks = << >> THEN << >>
    ELSE LET rest == group_by(Tail(marks))
         IN IF rest # << >> /\ rest[1][1].rank = marks[1].rank
            THEN <<<<marks[1]>> \o rest[1]>> \o Tail(rest)
            ELSE <<<<marks[1]>>>> \o rest

\* stream_process_cvr_file, lines 114-126: the choices of one contest block
stream_choices(contest, candidates, dropped_write_in) ==
    LET groups == group_by(contest.marks)
        choice_of(group) ==
            LET marks == SelectSeq(group, LAMBDA d : ~d.is_ambiguous)
            IN IF Len(marks) = 1 /\ Some(marks[1].candidate_id) = dropped_write_in
               THEN Undervote
               ELSE IF Len(marks) = 1 THEN id_to_choice(candidates, marks[1].candidate_id)
               ELSE IF Len(marks) = 0 THEN Undervote
               ELSE Overvote
    IN [g \in 1..Len(groups) |-> choice_of(groups[g])]

\* a reduction that does not turn the dropped write-in into an Undervote
batch_choices_keeps_write_in(contest, candidates, dropped_write_in) ==
    LET groups == group_by(contest.marks)
        choice_of(group) ==
            LET marks == SelectSeq(group, LAMBDA d : ~d.is_ambiguous)
            IN IF Len(marks) = 1 THEN id_to_choice(candidates, marks[1].candidate_id)
               ELSE IF Len(marks) = 0 THEN Undervote
               ELSE Overvote
    IN [g \in 1..Len(groups) |-> choice_of(groups[g])]

\* nist_batch_reader, lines 436-448: the choices of one contest block
batch_choices(contest, candidates, dropped_write_in) ==
    LET groups == group_by(contest.marks)
        choice_of(group) ==
            LET marks == SelectSeq(group, LAMBDA d : ~d.is_ambiguous)
            IN IF Len(marks) = 1 /\ Some(marks[1].candidate_id) = dropped_write_in
               THEN Undervote
               ELSE IF Len(marks) = 1 THEN id_to_choice(candidates, marks[1].candidate_id)
               ELSE IF Len(marks) = 0 THEN Undervote
               ELSE Overvote
    IN [g \in 1..Len(groups) |-> choice_of(groups[g])]

\* for session in &cvr.sessions, for contest in &session.contests(): the
\* contest blocks of a file, each with its session's record_id, in loop order
RECURSIVE session_contests(_)
session_contests(sessions) ==
    IF sessions = << >> THEN << >>
    ELSE [b \in 1..Len(Head(sessions).contests) |->
             [record_id |-> Head(sessions).record_id,
              contest |-> Head(sessions).contests[b]]]
         \o session_contests(Tail(sessions))

\* format!("{}:{}", filename, session.record_id)
ballot_id(filename, record_id) == filename \o <<Colon>> \o to_string(record_id)

\* a reader that loses the ballots collected so far when a file fails
stream_process_cvr_file_losing_ballots(content, filename, contest_id, candidates, dropped_write_in, ballots) ==
    IF content = << >> THEN [ok |-> FALSE, ballots |-> << >>]
    ELSE LET blocks == SelectSeq(session_contests(content[1].sessions),
                                 LAMBDA b : b.contest.id = contest_id)
         IN [ok |-> TRUE,
             ballots |-> ballots \o
                 [k \in 1..Len(blocks) |->
                     Ballot(ballot_id(filename, blocks[k].record_id),
                            stream_choices(blocks[k].contest, candidates,
                                           dropped_write_in))]]

\* stream_process_cvr_file, lines 95-138; content is none for a file that
\* cannot be read or parsed
stream_process_cvr_file(content, filename, contest_id, candidates, dropped_write_in, ballots) ==
    IF content = << >> THEN [ok |-> FALSE, ballots |-> ballots]
    ELSE LET blocks == SelectSeq(session_contests(content[1].sessions),
                                 LAMBDA b : b.contest.id = contest_id)
         IN [ok |-> TRUE,
             ballots |-> ballots \o
                 [k \in 1..Len(blocks) |->
                     Ballot(ballot_id(filename, blocks[k].record_id),
                            stream_choices(blocks[k].contest, candidates,
                                           dropped_write_in))]]

\* the names left in listing order
sort_unsorted(names) == names

\* cvr_files.sort()
RECURSIVE sort(_)
sort(names) ==
    IF names = << >> THEN << >>
    ELSE LET rest == sort(Tail(names))
             before_head == SelectSeq(rest, LAMBDA n : StrLess(n, Head(names)))
             after_head == SelectSeq(rest, LAMBDA n : ~StrLess(n, Head(names)))
         IN before_head \o <<Head(names)>> \o after_head

\* the names of the entries of a directory or archive, in listing order
file_names(source) == [i \in 1..Len(source.entries) |-> source.entries[i].name]

\* File::open / archive.by_name, then the content read: none when it fails
open_content(source, filename) ==
    (CHOOSE e \in { source.entries[i] : i \in 1..Len(source.entries) } :
        e.name = filename).content

\* the loop over cvr_files of read_from_directory (189-225) and of
\* read_from_zip (274-309), from file i on
RECURSIVE read_cvr_files(_, _, _, _, _, _, _)
read_cvr_files(source, cvr_files, i, contest_id, candidates, dropped_write_in, ballots) ==
    IF i > Len(cvr_files) THEN ballots
    ELSE read_cvr_files(
             source, cvr_files, i + 1, contest_id, candidates, dropped_write_in,
             stream_process_cvr_file(open_content(source, cvr_files[i]),
                                     cvr_files[i], contest_id, candidates,
                                     dropped_write_in, ballots).ballots)

from_params(params) ==
    [cvr |-> params.cvr, contest |-> params.contest,
     drop_unqualified_write_in |-> params.dropUnqualifiedWriteIn]

read_from_directory(dir_path, options) ==
    IF dir_path.manifest = << >> THEN Election(<< >>, << >>)
    ELSE LET c == get_candidates(dir_path.manifest[1], options.contest,
                                 options.drop_unqualified_write_in)
             cvr_files ==
                 sort(SelectSeq(file_names(dir_path),
                                LAMBDA f : /\ starts_with(f, CvrExportPrefix)
                                           /\ ends_with(f, JsonSuffix)))
         IN Election(into_vec(c.map),
                     read_cvr_files(dir_path, cvr_files, 1, options.contest,
                                    c.map, c.write_in_external_id, << >>))

read_from_zip(zip_path, options) ==
    IF zip_path.kind = "missing" THEN Election(<< >>, << >>)
    ELSE LET c == get_candidates(zip_path.manifest[1], options.contest,
                                 options.drop_unqualified_write_in)
             cvr_files == SelectSeq(file_names(zip_path),
                                    LAMBDA f : starts_with(f, CvrExportPrefix))
         IN Election(into_vec(c.map),
                     read_cvr_files(zip_path, cvr_files, 1, options.contest,
                                    c.map, c.write_in_external_id, << >>))

nist_ballot_reader(path, params) ==
    IF path.kind = "dir"
    THEN read_from_directory(path, from_params(params))
    ELSE read_from_zip(path, from_params(params))

\* HashMap::insert: the map with key k bound to v
insert(map, k, v) ==
    [x \in (DOMAIN map) \cup {k} |-> IF x = k THEN v ELSE map[x]]

\* HashMap::new()
HashMap_new == [x \in {} |-> << >>]

\* nist_batch_reader, lines 372-382, from contest i of the list on
RECURSIVE batch_contest_data(_, _, _, _)
batch_contest_data(manifest, contests, i, contest_data) ==
    IF i > Len(contests) THEN contest_data
    ELSE LET contest_id == contests[i][1]
             c == get_candidates(manifest, contest_id,
                                 contests[i][2].dropUnqualifiedWriteIn)
         IN batch_contest_data(
                manifest, contests, i + 1,
                insert(contest_data, contest_id,
                       [candidates |-> c.map,
                        dropped_write_in |-> c.write_in_external_id,
                        ballots |-> << >>]))

\* nist_batch_reader, lines 431-456, from block i of a parsed file on
RECURSIVE batch_session_contests(_, _, _, _)
batch_session_contests(blocks, i, filename, contest_data) ==
    IF i > Len(blocks) THEN contest_data
    ELSE LET id == blocks[i].contest.id
         IN IF id \in DOMAIN contest_data
            THEN batch_session_contests(
                     blocks, i + 1, filename,
                     [contest_data EXCEPT ![id].ballots =
                         Append(@, Ballot(ballot_id(filename, blocks[i].record_id),
                                          batch_choices(blocks[i].contest,
                                                        contest_data[id].candidates,
                                                        contest_data[id].dropped_write_in)))])
            ELSE batch_session_contests(blocks, i + 1, filename, contest_data)

\* nist_batch_reader, lines 403-466, from file i on
RECURSIVE batch_cvr_files(_, _, _, _)
batch_cvr_files(source, cvr_files, i, contest_data) ==
    IF i > Len(cvr_files) THEN contest_data
    ELSE LET content == open_content(source, cvr_files[i])
         IN batch_cvr_files(
                source, cvr_files, i + 1,
                IF content = << >> THEN contest_data
                ELSE batch_session_contests(session_contests(content[1].sessions), 1,
                                            cvr_files[i], contest_data))

\* nist_batch_reader, lines 318-482; path is what path.join(cvr_name) holds
nist_batch_reader(path, contests) ==
    IF contests = << >> THEN HashMap_new
    ELSE IF path.kind # "dir" THEN HashMap_new
    ELSE IF path.manifest = << >> THEN HashMap_new
    ELSE LET contest_data ==
                 batch_cvr_files(
                     path,
                     sort(SelectSeq(file_names(path),
                                    LAMBDA f : /\ starts_with(f, CvrExportPrefix)
                                               /\ ends_with(f, JsonSuffix))),
                     1,
                     batch_contest_data(path.manifest[1], contests, 1, HashMap_new))
         IN [contest_id \in DOMAIN contest_data |->
                Election(into_vec(contest_data[contest_id].candidates),
                         contest_data[contest_id].ballots)]

----------------------------------------------------------------------------
(* The inputs of the NIST adapter *)

\* contests 1 and 2 each have a regular candidate and an unqualified write-in
CandidateManifest ==
    << ManifestCandidate(10, 1, "Regular", "ALICE"),
       ManifestCandidate(11, 1, "WriteIn", "Write-in"),
       ManifestCandidate(12, 1, "QualifiedWriteIn", "BOB"),
       ManifestCandidate(20, 2, "Regular", "CAROL"),
       ManifestCandidate(21, 2, "WriteIn", "Write-in") >>

ContestMarks(id, marks) == [id |-> id, marks |-> marks]

Session(record_id, contests) == [record_id |-> record_id, contests |-> contests]

NistSessions ==
    << \* both contests, a write-in at rank 2 and at rank 1
       Session(1, << ContestMarks(1, <<Mark(10, 1, FALSE), Mark(11, 2, FALSE)>>),
                     ContestMarks(2, <<Mark(21, 1, FALSE), Mark(20, 2, FALSE)>>) >>),
       \* two marks at rank 1, one the write-in, then a vote
       Session(2, << ContestMarks(1, <<Mark(11, 1, FALSE), Mark(12, 1, FALSE),
                                       Mark(10, 2, FALSE)>>) >>),
       \* the record_id of the first session again; an ambiguous mark
       Session(1, << ContestMarks(2, <<Mark(20, 1, TRUE), Mark(21, 2, FALSE)>>) >>),
       \* two blocks of contest 1 in one session
       Session(3, << ContestMarks(1, <<Mark(10, 1, FALSE)>>),
                     ContestMarks(1, <<Mark(11, 1, FALSE)>>) >>),
       \* a contest that is no target
       Session(4, << ContestMarks(3, <<Mark(30, 1, FALSE)>>) >>),
       \* rank 1 marked again after rank 2
       Session(5, << ContestMarks(1, <<Mark(10, 1, FALSE), Mark(12, 2, FALSE),
                                       Mark(10, 1, FALSE)>>) >>) >>

\* a CvrExport of at most two of the sessions, or a file that cannot be read
NistContents ==
    {<< >>}
    \cup {Some([sessions |-> << >>])}
    \cup { Some([sessions |-> <<NistSessions[i]>>]) : i \in 1..Len(NistSessions) }
    \cup { Some([sessions |-> <<NistSessions[i], NistSessions[k]>>]) :
             i \in 1..Len(NistSessions), k \in 1..Len(NistSessions) }

\* "CvrExport_1.json", "CvrExport_2.json", "ContestManifest.json"
CvrExport_1 == CvrExportPrefix \o <<95, 49>> \o JsonSuffix
CvrExport_2 == CvrExportPrefix \o <<95, 50>> \o JsonSuffix
ContestManifest == <<67, 111, 110, 116, 101, 115, 116, 77, 97, 110, 105, 102, 101,
                     115, 116>> \o JsonSuffix

Entry(name, content) == [name |-> name, content |-> content]

\* the listings of a directory or archive: no, one or two CvrExport files, in
\* either listing order, and a file that is no CvrExport
NistListings ==
    {<<Entry(ContestManifest, << >>)>>}
    \cup { <<Entry(CvrExport_1, c), Entry(ContestManifest, << >>)>> :
             c \in NistContents }
    \cup { <<Entry(CvrExport_2, c2), Entry(ContestManifest, << >>),
             Entry(CvrExport_1, c1)>> :
             c1 \in NistContents, c2 \in { Some([sessions |-> <<NistSessions[i]>>]) : i \in 1..2 } \cup {<< >>} }

NistPaths ==
    { [kind |-> k, manifest |-> Some(CandidateManifest), entries |-> l] :
        k \in {"dir", "zip"}, l \in NistListings }
    \cup { [kind |-> "dir", manifest |-> << >>, entries |-> l] :
             l \in { m \in NistListings : Len(m) <= 2 } }
    \cup { [kind |-> "missing", manifest |-> << >>, entries |-> << >>] }

\* the (contest id, loader params) lists: all contests share the cvr path
NistContestLists ==
    SeqsUpTo({ <<id, ReaderParams("cvr", id, drop)>> :
                 id \in {1, 2}, drop \in BOOLEAN }, 2)

NistInit ==
    /\ nist_path \in NistPaths
    /\ nist_contests \in NistContestLists
    /\ nist_batch = << >>
    /\ nist_single = << >>
    /\ PipeIdle
    /\ NycIdle
    /\ RcrIdle
    /\ MeIdle /\ MplsIdle /\ BalIdle /\ PathIdle /\ CsvIdle

\* the election is read at once by the batch reader
read_batch ==
    /\ nist_batch = << >>
    /\ nist_batch' = Some(nist_batch_reader(nist_path, nist_contests))
    /\ UNCHANGED <<nist_path, nist_contests, nist_single>>

\* contest i of the election is read alone
read_single(i) ==
    /\ nist_batch # << >>
    /\ nist_single = << >>
    /\ nist_single' = Some([contest |-> i,
                            election |-> nist_ballot_reader(nist_path,
                                                            nist_contests[i][2])])
    /\ UNCHANGED <<nist_path, nist_contests, nist_batch>>

NistNext ==
    \/ read_batch /\ UNCHANGED notNistVars
    \/ \E i \in 1..Len(nist_contests) : read_single(i) /\ UNCHANGED notNistVars

SpecNist == NistInit /\ [][NistNext]_vars

\* marks of one contest block
MaxMarks == 3

\* the marks of a block of contest 1: for the regular candidate, the
\* unqualified write-in and a candidate of contest 2, at rank 1 or 2
NistMarks ==
    { Mark(c, r, a) : c \in {10, 11, 20}, r \in {1, 2}, a \in BOOLEAN }

\* a directory with one CvrExport file of one session with one block of
\* contest 1, its marks listed in any order; contest 1 is the only target
MarksInit ==
    /\ nist_path \in
          { [kind |-> "dir", manifest |-> Some(CandidateManifest),
             entries |-> << Entry(CvrExport_1,
                                  Some([sessions |->
                                          << Session(1, <<ContestMarks(1, marks)>>) >>])) >>] :
              marks \in SeqsUpTo(NistMarks, MaxMarks) }
    /\ nist_contests \in { << <<1, ReaderParams("cvr", 1, drop)>> >> : drop \in BOOLEAN }
    /\ nist_batch = << >>
    /\ nist_single = << >>
    /\ PipeIdle
    /\ NycIdle
    /\ RcrIdle
    /\ MeIdle /\ MplsIdle /\ BalIdle /\ PathIdle /\ CsvIdle

SpecMarks == MarksInit /\ [][NistNext]_vars

----------------------------------------------------------------------------
(* The Dominion RCR adapter: parse_rcr_file *)

\* the ballot count of one line of an RCR file
MaxCount == 2

\* choice, lines 54-64: one number of a ballot entry
choice(candidate_id) ==
    IF candidate_id = 0 THEN Undervote ELSE Vote(candidate_id - 1)

\* ballot_entry, lines 66-74: the numbers joined by '=' in one entry
ballot_entry(numbers) ==
    IF Len(numbers) = 1 THEN choice(numbers[1]) ELSE Overvote

\* ballot, lines 76-84: (ballot_count, choices) of one line
ballot(line) ==
    <<line.ballot_count, [e \in 1..Len(line.entries) |-> ballot_entry(line.entries[e])]>>

\* a loop that pushes one ballot per line whatever its count
RECURSIVE push_ballots_once(_, _, _)
push_ballots_once(agg_ballots, i, ballots) ==
    IF i > Len(agg_ballots) THEN ballots
    ELSE push_ballots_once(
             agg_ballots, i + 1,
             Append(ballots, Ballot(to_string(Len(ballots)), agg_ballots[i][2])))

\* the loop of parse_rcr_file, lines 102-106, from aggregated ballot i on
RECURSIVE push_ballots(_, _, _)
push_ballots(agg_ballots, i, ballots) ==
    IF i > Len(agg_ballots) THEN ballots
    ELSE push_ballots(
             agg_ballots, i + 1,
             ballots \o [k \in 1..agg_ballots[i][1] |->
                            Ballot(to_string(Len(ballots) + k - 1), agg_ballots[i][2])])

\* parse_rcr_file, lines 86-109: count(candidate, num_candidates) reads as many
\* candidate lines as the header says
parse_rcr_file(file) ==
    LET candidates == [c \in 1..file.num_candidates |->
                          Candidate(normalize_name(file.candidates[c], FALSE), "Regular")]
        agg_ballots == [l \in 1..Len(file.ballots) |-> ballot(file.ballots[l])]
    IN Election(candidates, push_ballots(agg_ballots, 1, << >>))

\* the entries of a ballot line: a number, or numbers joined by '='
RcrEntries == { <<n>> : n \in 0..2 } \cup {<<1, 2>>}

RcrLines ==
    { [ballot_count |-> c, entries |-> e] :
        c \in 0..MaxCount, e \in SeqsUpTo(RcrEntries, 2) \ {<< >>} }

RcrFiles ==
    { [num_candidates |-> Len(names), candidates |-> names, ballots |-> lines] :
        names \in {<<"ALICE">>, <<"ALICE", "BOB">>},
        lines \in SeqsUpTo(RcrLines, 2) \ {<< >>} }

RcrInit ==
    /\ rcr_input \in RcrFiles
    /\ rcr_election = << >>
    /\ PipeIdle
    /\ NycIdle
    /\ NistIdle
    /\ MeIdle /\ MplsIdle /\ BalIdle /\ PathIdle /\ CsvIdle

\* rcr_file, lines 111-114
rcr_file ==
    /\ rcr_election = << >>
    /\ rcr_election' = Some(parse_rcr_file(rcr_input))
    /\ UNCHANGED rcr_input

RcrNext == rcr_file /\ UNCHANGED notRcrVars

SpecRcr == RcrInit /\ [][RcrNext]_vars

----------------------------------------------------------------------------
(* The Maine adapter: maine_ballot_reader (formats/us_me/mod.rs)           *)

\* the first capture group of CANDIDATE_RX, (?:DEM |REP )?([^\(]*[^ \()])(?: +\(\d+\))?,
\* in a candidate cell: the party prefix and the trailing " (n)" are left out
captures(candidate) ==
    CASE candidate = "DEM ALICE" -> "ALICE"
      [] candidate = "BOB (12)" -> "BOB"
      [] candidate = "REP CAROL (3)" -> "CAROL"
      [] OTHER -> candidate

\* CandidateMap::add_id_to_choice: insert if absent, and the Vote of the key
add_id_to_choice(map, k, candidate) ==
    [candidate_map |-> add(map, k, candidate),
     choice |-> id_to_choice(add(map, k, candidate), k)]

\* parse_choice, lines 27-49
parse_choice(candidate, candidate_map) ==
    IF candidate = "overvote"
    THEN [candidate_map |-> candidate_map, choice |-> Overvote]
    ELSE IF candidate = "undervote"
    THEN [candidate_map |-> candidate_map, choice |-> Undervote]
    ELSE add_id_to_choice(candidate_map, captures(candidate),
                          Candidate(normalize_name(captures(candidate), TRUE), "Regular"))

\* a row of the sheet: the number of column 0 and the cells of columns 3, 4
\* and 5, each a string or a cell that holds no string
Row(id_val, c3, c4, c5) == [id_val |-> id_val, cells |-> <<c3, c4, c5>>]

\* for i in 3..10, lines 81-95: the columns from i on
RECURSIVE row_columns(_, _, _, _)
row_columns(row, i, local_candidate_map, choices) ==
    IF i >= 10 THEN [candidate_map |-> local_candidate_map, choices |-> choices]
    ELSE LET cand == IF i < 6
                     THEN IF row.cells[i - 2] # << >> THEN row.cells[i - 2][1]
                          ELSE "undervote"
                     ELSE "undervote"
             parsed == parse_choice(cand, local_candidate_map)
         IN row_columns(row, i + 1, parsed.candidate_map, Append(choices, parsed.choice))

\* for row in rows, lines 71-99: the rows from r on
RECURSIVE sheet_rows(_, _, _, _)
sheet_rows(rows, r, local_candidate_map, ballots) ==
    IF r > Len(rows)
    THEN <<ballots,
           [c \in 1..Len(local_candidate_map) |-> into_vec(local_candidate_map)[c].name]>>
    ELSE LET columns == row_columns(rows[r], 3, local_candidate_map, << >>)
         IN sheet_rows(rows, r + 1, columns.candidate_map,
                       Append(ballots, Ballot(to_string(rows[r].id_val), columns.choices)))

\* the closure of the parallel map, lines 61-108, for one workbook
read_workbook(rows) == sheet_rows(rows, 1, CandidateMap_new, << >>)

\* a collect that takes the results in the order of their completion
collect_in_completion_order(results, order) ==
    [k \in 1..Len(order) |-> results[order[k]][1]]

\* par_iter().map(..).collect(), lines 58-109: the results in the order of files
collect(results, order) == [i \in 1..Len(results) |-> results[i][1]]

\* for candidate_name in all_candidates, lines 122-127
RECURSIVE add_all(_, _)
add_all(candidate_map, all_candidates) ==
    IF all_candidates = << >> THEN candidate_map
    ELSE add_all(add(candidate_map, Head(all_candidates),
                     Candidate(Head(all_candidates), "Regular")),
                 Tail(all_candidates))

\* lines 111-129: the merge of the file results
merge_file_results(file_results) ==
    LET ballots == flatten([i \in 1..Len(file_results) |-> file_results[i][1]])
        all_candidates == flatten([i \in 1..Len(file_results) |-> file_results[i][2]])
    IN Election(into_vec(add_all(CandidateMap_new, all_candidates)), ballots)

----------------------------------------------------------------------------
(* The inputs of the Maine adapter *)

\* rows of candidate cells with and without party prefix and number, of
\* overvote and undervote cells and of a cell that holds no string; the last
\* row names one candidate by two raw strings
MeRows ==
    { Row(1, <<"DEM ALICE">>, <<"BOB (12)">>, << >>),
      Row(2, <<"BOB">>, <<"overvote">>, <<"ALICE">>),
      Row(1, <<"REP CAROL (3)">>, <<"undervote">>, <<"BOB">>),
      Row(3, << >>, <<"Alice">>, <<"ALICE">>) }

\* the sheets: at most two of the rows
MeSheets == SeqsUpTo(MeRows, 2)

\* the `files` parameter names one, two or three workbooks
MeFileLists ==
    { <<f>> : f \in MeSheets }
    \cup { <<f, g>> : f \in MeSheets, g \in MeSheets }
    \cup { <<f, g, h>> : f \in { <<r>> : r \in MeRows }, g \in { <<r>> : r \in MeRows },
                         h \in { <<r>> : r \in MeRows } }

MeInit ==
    /\ me_files \in MeFileLists
    /\ me_results = [i \in 1..Len(me_files) |-> << >>]
    /\ me_order = << >>
    /\ me_election = << >>
    /\ PipeIdle /\ NycIdle /\ NistIdle /\ RcrIdle
    /\ MplsIdle /\ BalIdle /\ PathIdle /\ CsvIdle

\* the worker of file i completes
maine_read_file(i) ==
    /\ me_results[i] = << >>
    /\ me_results' = [me_results EXCEPT ![i] = Some(read_workbook(me_files[i]))]
    /\ me_order' = Append(me_order, i)
    /\ UNCHANGED <<me_files, me_election>>

\* maine_ballot_reader, lines 111-129, once every worker has completed
maine_ballot_reader ==
    /\ me_election = << >>
    /\ \A i \in 1..Len(me_files) : me_results[i] # << >>
    /\ me_election' = Some(merge_file_results(collect(me_results, me_order)))
    /\ UNCHANGED <<me_files, me_results, me_order>>

MeNext ==
    \/ \E i \in 1..Len(me_files) : maine_read_file(i) /\ UNCHANGED notMeVars
    \/ maine_ballot_reader /\ UNCHANGED notMeVars

SpecMe == MeInit /\ [][MeNext]_vars

----------------------------------------------------------------------------
(* The Minneapolis adapter: mpls_ballot_reader (formats/us_mn_mpls/mod.rs) *)

\* char::is_whitespace on the ASCII range
IsWhitespace(c) == c \in {9, 10, 11, 12, 13, 32}

RECURSIVE trim_start(_)
trim_start(s) ==
    IF s # << >> /\ IsWhitespace(Head(s)) THEN trim_start(Tail(s)) ELSE s

RECURSIVE trim_end(_)
trim_end(s) ==
    IF s # << >> /\ IsWhitespace(s[Len(s)])
    THEN trim_end(SubSeq(s, 1, Len(s) - 1))
    ELSE s

\* str::trim
trim(s) == trim_end(trim_start(s))

to_ascii_lowercase(s) ==
    [i \in 1..Len(s) |-> IF s[i] \in 65..90 THEN s[i] + 32 ELSE s[i]]

eq_ignore_ascii_case(a, b) == to_ascii_lowercase(a) = to_ascii_lowercase(b)

\* "overvote", "undervote", "uwi" and "Undeclared Write-ins"
OvervoteStr == <<111, 118, 101, 114, 118, 111, 116, 101>>
UndervoteStr == <<117, 110, 100, 101, 114, 118, 111, 116, 101>>
UwiStr == <<117, 119, 105>>
UndeclaredWriteIns == <<85, 110, 100, 101, 99, 108, 97, 114, 101, 100, 32, 87, 114, 105, 116, 101, 45, 105, 110, 115>>

\* parse_choice, lines 23-45
mpls_parse_choice(candidate, candidate_map) ==
    LET trimmed == trim(candidate)
    IN IF eq_ignore_ascii_case(trimmed, UndervoteStr)
       THEN [candidate_map |-> candidate_map, choice |-> Undervote]
       ELSE IF eq_ignore_ascii_case(trimmed, OvervoteStr)
       THEN [candidate_map |-> candidate_map, choice |-> Overvote]
       ELSE IF trimmed = << >>
       THEN [candidate_map |-> candidate_map, choice |-> Undervote]
       ELSE add_id_to_choice(
                candidate_map, trimmed,
                IF eq_ignore_ascii_case(trimmed, UwiStr)
                THEN Candidate(UndeclaredWriteIns, "WriteIn")
                ELSE Candidate(trimmed, "Regular"))

\* the value of a string of decimal digits
RECURSIVE digits_value(_)
digits_value(s) ==
    IF s = << >> THEN 0
    ELSE 10 * digits_value(SubSeq(s, 1, Len(s) - 1)) + (s[Len(s)] - 48)

\* str::parse::<u32>: an optional '+' and at least one digit, nothing else
parse_u32(s) ==
    LET digits == IF s # << >> /\ Head(s) = 43 THEN Tail(s) ELSE s
    IN IF digits # << >> /\ \A i \in 1..Len(digits) : digits[i] \in 48..57
       THEN Some(digits_value(digits))
       ELSE << >>

unwrap_or(option, default) == IF option = << >> THEN default ELSE option[1]

\* the cells of a worksheet (calamine::Data); a Float holds a number of halves
DataInt(n) == [data |-> "Int", n |-> n, s |-> << >>]
DataFloat(halves) == [data |-> "Float", n |-> halves, s |-> << >>]
DataString(s) == [data |-> "String", n |-> 0, s |-> s]
DataEmpty == [data |-> "Empty", n |-> 0, s |-> << >>]

\* f64 as u32: truncation towards zero, negative values give 0
float_as_u32(halves) == IF halves <= 0 THEN 0 ELSE halves \div 2

\* parse_count_cell, lines 47-60
parse_count_cell(cell) ==
    CASE cell.data = "Int" -> IF cell.n <= 0 THEN 1 ELSE cell.n
      [] cell.data = "Float" ->
            IF float_as_u32(cell.n) >= 1 THEN float_as_u32(cell.n) ELSE 1
      [] cell.data = "String" -> unwrap_or(parse_u32(cell.s), 1)
      [] OTHER -> 1

\* i64::to_string
int_to_string(n) == IF n < 0 THEN <<45>> \o to_string(0 - n) ELSE to_string(n)

\* f64::to_string of a number of halves
float_to_string(halves) ==
    IF halves % 2 = 0 THEN int_to_string(halves \div 2)
    ELSE (IF halves < 0 THEN <<45>> ELSE << >>)
         \o to_string((IF halves < 0 THEN 0 - halves ELSE halves) \div 2) \o <<46, 53>>

\* cell_to_string, lines 62-71
cell_to_string(cell) ==
    CASE cell.data = "String" -> cell.s
      [] cell.data = "Int" -> int_to_string(cell.n)
      [] cell.data = "Float" -> float_to_string(cell.n)
      [] OTHER -> << >>

\* one of the three blocks of append_ballots, lines 94-113
rank_choice(cell, candidate_map) ==
    IF cell # << >> /\ ~eq_ignore_ascii_case(cell, UndervoteStr)
    THEN mpls_parse_choice(cell, candidate_map)
    ELSE [candidate_map |-> candidate_map, choice |-> Undervote]

\* the ballots of one row: for _ in 0..count, lines 117-121
row_ballots(precinct, choices, count, last_id) ==
    [k \in 1..count |-> Ballot(precinct \o <<Colon>> \o to_string(last_id + k), choices)]

\* append_ballots, lines 73-122
append_ballots(candidate_map, ballots, precinct, choice1, choice2, choice3, count, last_id) ==
    IF \/ eq_ignore_ascii_case(choice1, OvervoteStr)
       \/ eq_ignore_ascii_case(choice2, OvervoteStr)
       \/ eq_ignore_ascii_case(choice3, OvervoteStr)
    THEN [candidate_map |-> candidate_map,
          ballots |-> ballots \o row_ballots(precinct, <<Overvote>>, count, last_id),
          ballot_id |-> last_id + count]
    ELSE LET first == rank_choice(choice1, candidate_map)
             second == rank_choice(choice2, first.candidate_map)
             third == rank_choice(choice3, second.candidate_map)
         IN [candidate_map |-> third.candidate_map,
             ballots |-> ballots \o row_ballots(
                             precinct, <<first.choice, second.choice, third.choice>>,
                             count, last_id),
             ballot_id |-> last_id + count]

\* what a reader that panicked leaves
Panicked == [panicked |-> TRUE]

\* for result in rdr.records(), lines 134-158, from record r on; the reader
\* is not flexible: a record whose length differs from the header's is an
\* error, and the expect on it panics
RECURSIVE csv_records(_, _, _)
csv_records(records, r, acc) ==
    IF r > Len(records) THEN Election(into_vec(acc.candidate_map), acc.ballots)
    ELSE IF Len(records[r]) # Len(records[1]) THEN Panicked
    ELSE IF Len(records[r]) < 5 THEN csv_records(records, r + 1, acc)
    ELSE csv_records(
             records, r + 1,
             append_ballots(acc.candidate_map, acc.ballots, records[r][1],
                            records[r][2], records[r][3], records[r][4],
                            unwrap_or(parse_u32(records[r][5]), 1), acc.ballot_id))

\* read_csv, lines 124-161: the first record is the header
read_csv(records) ==
    csv_records(records, 2,
                [candidate_map |-> CandidateMap_new, ballots |-> << >>, ballot_id |-> 0])

\* for row in rows, lines 193-217, from row r on
RECURSIVE xlsx_rows(_, _, _)
xlsx_rows(rows, r, acc) ==
    IF r > Len(rows) THEN Election(into_vec(acc.candidate_map), acc.ballots)
    ELSE IF Len(rows[r]) < 5 THEN xlsx_rows(rows, r + 1, acc)
    ELSE xlsx_rows(
             rows, r + 1,
             append_ballots(acc.candidate_map, acc.ballots,
                            trim(cell_to_string(rows[r][1])),
                            cell_to_string(rows[r][2]), cell_to_string(rows[r][3]),
                            cell_to_string(rows[r][4]),
                            parse_count_cell(rows[r][5]), acc.ballot_id))

\* read_xlsx, lines 163-220: the first row is the header
read_xlsx(rows) ==
    xlsx_rows(rows, 2,
              [candidate_map |-> CandidateMap_new, ballots |-> << >>, ballot_id |-> 0])

\* the match of mpls_ballot_reader on the lower-cased extension, lines 232-235
read_file(file) ==
    IF to_ascii_lowercase(file.ext) \in {<<120, 108, 115, 120>>, <<120, 108, 115, 109>>, <<120, 108, 115>>}
    THEN read_xlsx(file.rows)
    ELSE read_csv(file.records)

----------------------------------------------------------------------------
(* The inputs of the Minneapolis adapter *)

\* the three choice cells of a row: names, "uwi", explicit and empty
\* undervotes, and "overvote" in several spellings, bare and with blanks
MplsChoices ==
    { <<<<65>>, <<66>>, <<117, 110, 100, 101, 114, 118, 111, 116, 101>>>>,
      <<<<111, 118, 101, 114, 118, 111, 116, 101>>, <<65>>, <<66>>>>,
      <<<<65>>, <<32, 79, 86, 69, 82, 86, 79, 84, 69, 32>>, <<66>>>>,
      <<<<65>>, <<>>, <<85, 87, 73>>>>,
      <<<<66>>, <<65>>, <<79, 118, 101, 114, 118, 111, 116, 101>>>>,
      <<<<32>>, <<65, 32>>, <<65>>>> }

\* the count field of a CSV record
CsvCounts == { <<48>>, <<49>>, <<50>>, <<45, 49>>, <<120>>, <<>> }

\* the count cell of a sheet
XlsxCounts ==
    { DataInt(0), DataInt(-2), DataInt(2), DataFloat(1), DataFloat(5), DataFloat(-3),
      DataString(<<48>>), DataString(<<50>>), DataString(<<120>>), DataEmpty }

CsvRows == { <<<<80>>, c[1], c[2], c[3], n>> : c \in MplsChoices, n \in CsvCounts }

XlsxRows ==
    { <<DataString(<<80, 32>>), DataString(c[1]), DataString(c[2]), DataString(c[3]), n>> :
        c \in MplsChoices, n \in XlsxCounts }

CsvHeader == <<<<80, 114, 101, 99, 105, 110, 99, 116>>, <<49, 115, 116>>, <<50, 110, 100>>, <<51, 114, 100>>, <<67, 111, 117, 110, 116>>>>
XlsxHeader == [i \in 1..5 |-> DataString(CsvHeader[i])]

\* a file is a CSV file of records or a workbook whose first sheet has rows:
\* a header and one or two rows, or four columns only; a CSV file may hold
\* a record shorter than its header
CsvFile(ext, records) == [ext |-> ext, records |-> records, rows |-> << >>]
XlsxFile(ext, rows) == [ext |-> ext, records |-> << >>, rows |-> rows]

MplsFiles ==
    { CsvFile(e, <<CsvHeader>> \o records) :
        e \in {<<99, 115, 118>>, <<116, 120, 116>>}, records \in SeqsUpTo(CsvRows, 2) \ {<< >>} }
    \cup { CsvFile(<<99, 115, 118>>, <<CsvHeader, r, SubSeq(r, 1, 4)>>) : r \in CsvRows }
    \cup { CsvFile(<<99, 115, 118>>, <<SubSeq(CsvHeader, 1, 4), SubSeq(r, 1, 4)>>) : r \in CsvRows }
    \cup { XlsxFile(e, <<XlsxHeader>> \o rows) :
             e \in {<<120, 108, 115, 120>>, <<88, 76, 83>>}, rows \in SeqsUpTo(XlsxRows, 2) \ {<< >>} }
    \cup { XlsxFile(<<120, 108, 115, 109>>, <<SubSeq(XlsxHeader, 1, 4), SubSeq(r, 1, 4)>>) : r \in XlsxRows }

MplsInit ==
    /\ mpls_file \in MplsFiles
    /\ mpls_election = << >>
    /\ PipeIdle /\ NycIdle /\ NistIdle /\ RcrIdle /\ MeIdle
    /\ BalIdle /\ PathIdle /\ CsvIdle

\* mpls_ballot_reader, lines 222-236
mpls_ballot_reader ==
    /\ mpls_election = << >>
    /\ mpls_election' = Some(read_file(mpls_file))
    /\ UNCHANGED mpls_file

MplsNext == mpls_ballot_reader /\ UNCHANGED notMplsVars

SpecMpls == MplsInit /\ [][MplsNext]_vars

----------------------------------------------------------------------------
(* The mark reduction of formats/nist_sp_1500/ballot.rs *)

RankedMark(candidate_id, rank) == [candidate_id |-> candidate_id, rank |-> rank]

\* sort_by_key(|m| m.rank), a stable sort: the marks of sorted and one more
RECURSIVE insert_by_rank(_, _)
insert_by_rank(sorted, mark) ==
    IF sorted = << >> THEN <<mark>>
    ELSE IF sorted[Len(sorted)].rank <= mark.rank THEN Append(sorted, mark)
    ELSE Append(insert_by_rank(SubSeq(sorted, 1, Len(sorted) - 1), mark),
                sorted[Len(sorted)])

\* a sort that leaves the marks in their input order
sort_by_key_unsorted(marks) == marks

RECURSIVE sort_by_key(_)
sort_by_key(marks) ==
    IF marks = << >> THEN << >>
    ELSE insert_by_rank(sort_by_key(SubSeq(marks, 1, Len(marks) - 1)), marks[Len(marks)])

\* slice::chunk_by(|a, b| a.rank == b.rank): the runs of equal rank
chunk_by(marks) == group_by(marks)

\* marks_to_choices, lines 25-63
marks_to_choices(marks, candidates, dropped_write_in) ==
    IF marks = << >> THEN << >>
    ELSE LET filtered_marks ==
                 SelectSeq(marks, LAMBDA m : \/ dropped_write_in = << >>
                                             \/ m.candidate_id # dropped_write_in[1])
             rank_groups == chunk_by(sort_by_key(filtered_marks))
             choice_of(rank_group) ==
                 IF Len(rank_group) = 0 THEN Undervote
                 ELSE IF Len(rank_group) = 1
                 THEN id_to_choice(candidates, rank_group[1].candidate_id)
                 ELSE Overvote
         IN [g \in 1..Len(rank_groups) |-> choice_of(rank_groups[g])]

\* json_marks_to_choices, lines 69-82
json_marks_to_choices(marks, candidates, dropped_write_in) ==
    LET kept == SelectSeq(marks, LAMBDA m : ~m.is_ambiguous)
        ranked_marks == [i \in 1..Len(kept) |-> RankedMark(kept[i].candidate_id, kept[i].rank)]
    IN marks_to_choices(ranked_marks, candidates, dropped_write_in)

\* csv_marks_to_choices, lines 88-99: the marks are (candidate_id, rank) pairs
csv_marks_to_choices(marks, candidates, dropped_write_in) ==
    marks_to_choices([i \in 1..Len(marks) |-> RankedMark(marks[i][1], marks[i][2])],
                     candidates, dropped_write_in)

----------------------------------------------------------------------------
(* The inputs of the mark reduction *)

\* the candidate map of a contest with two regular candidates; the write-in
\* 99 is in the map unless it is the dropped one
BalCandidates(dropped_write_in) ==
    LET regular == add(add(CandidateMap_new, 1, Candidate("Alice", "Regular")),
                       2, Candidate("Bob", "Regular"))
    IN IF dropped_write_in = << >>
       THEN add(regular, 99, Candidate("Write-in", "WriteIn"))
       ELSE regular

\* JSON marks of the three candidates and of a candidate the map does not
\* hold, at ranks 1 to 3; the marks of candidate 2 may be ambiguous
JsonMarks ==
    { Mark(c, r, FALSE) : c \in {1, 2}, r \in 1..3 }
    \cup { Mark(99, r, FALSE) : r \in 1..2 }
    \cup { Mark(2, r, TRUE) : r \in 1..2 }
    \cup { Mark(7, 1, FALSE) }

CsvMarks == { <<c, r>> : c \in {1, 2, 99}, r \in 1..2 }

BalInputs ==
    { [entry |-> "json", marks |-> m, dropped_write_in |-> d] :
        m \in SeqsUpTo(JsonMarks, MaxMarks), d \in {<< >>, <<99>>} }
    \cup { [entry |-> e, marks |-> m, dropped_write_in |-> d] :
             e \in {"csv", "ranked"}, m \in SeqsUpTo(CsvMarks, MaxMarks),
             d \in {<< >>, <<99>>} }

BalInit ==
    /\ bal_input \in BalInputs
    /\ bal_choices = << >>
    /\ PipeIdle /\ NycIdle /\ NistIdle /\ RcrIdle /\ MeIdle
    /\ MplsIdle /\ PathIdle /\ CsvIdle

\* a call of json_marks_to_choices
call_json_marks_to_choices ==
    /\ bal_input.entry = "json"
    /\ bal_choices = << >>
    /\ bal_choices' = Some(json_marks_to_choices(
                               bal_input.marks, BalCandidates(bal_input.dropped_write_in),
                               bal_input.dropped_write_in))
    /\ UNCHANGED bal_input

\* a call of csv_marks_to_choices
call_csv_marks_to_choices ==
    /\ bal_input.entry = "csv"
    /\ bal_choices = << >>
    /\ bal_choices' = Some(csv_marks_to_choices(
                               bal_input.marks, BalCandidates(bal_input.dropped_write_in),
                               bal_input.dropped_write_in))
    /\ UNCHANGED bal_input

\* a call of marks_to_choices
call_marks_to_choices ==
    /\ bal_input.entry = "ranked"
    /\ bal_choices = << >>
    /\ bal_choices' = Some(marks_to_choices(
                               [i \in 1..Len(bal_input.marks) |->
                                   RankedMark(bal_input.marks[i][1], bal_input.marks[i][2])],
                               BalCandidates(bal_input.dropped_write_in),
                               bal_input.dropped_write_in))
    /\ UNCHANGED bal_input

BalNext ==
    \/ call_json_marks_to_choices /\ UNCHANGED notBalVars
    \/ call_csv_marks_to_choices /\ UNCHANGED notBalVars
    \/ call_marks_to_choices /\ UNCHANGED notBalVars

SpecBal == BalInit /\ [][BalNext]_vars

----------------------------------------------------------------------------
(* The path resolution of formats/nist_sp_1500/path.rs *)

\* a file system: the paths that are directories and those that are files
exists(fs, p) == p \in fs.dirs \cup fs.files
is_dir(fs, p) == p \in fs.dirs

\* Path::join: an absolute name replaces the base
join(base, name) ==
    IF name # << >> /\ name[1] = Slash THEN name ELSE base \o <<Slash>> \o name

\* the last position of code c in s, or 0
last_index(s, c) ==
    IF \E i \in 1..Len(s) : s[i] = c
    THEN CHOOSE i \in 1..Len(s) : s[i] = c /\ \A j \in (i + 1)..Len(s) : s[j] # c
    ELSE 0

\* Path::with_extension(""): the file name loses what follows its last '.',
\* unless the name has no '.' after its first character
with_extension_empty(p) ==
    LET slash == last_index(p, Slash)
        dot == last_index(SubSeq(p, slash + 1, Len(p)), 46)
    IN IF dot > 1 THEN SubSeq(p, 1, slash + dot - 1) ELSE p

\* ".zip", "CvrExport.json" and "CandidateManifest.json"
ZipSuffix == <<46, 122, 105, 112>>
CvrExportJson == <<67, 118, 114, 69, 120, 112, 111, 114, 116, 46, 106, 115, 111, 110>>
CandidateManifestJson == <<67, 97, 110, 100, 105, 100, 97, 116, 101, 77, 97, 110, 105, 102, 101, 115, 116, 46, 106, 115, 111, 110>>

\* lines 22-26: "." stands for the base path
start_path(base_path, cvr_name) ==
    IF cvr_name = <<46>> THEN base_path ELSE join(base_path, cvr_name)

\* lines 30-35: a missing .zip path gives way to the directory of its name
zip_to_directory(fs, cvr_path) ==
    IF /\ ends_with(cvr_path, ZipSuffix)
       /\ ~exists(fs, cvr_path)
       /\ is_dir(fs, with_extension_empty(cvr_path))
    THEN with_extension_empty(cvr_path)
    ELSE cvr_path

\* a fallback that does not look for the manifest files
fallback_to_base_unconditional(fs, base_path, cvr_path) ==
    IF ~exists(fs, cvr_path) /\ ~is_dir(fs, cvr_path) /\ is_dir(fs, base_path)
    THEN base_path
    ELSE cvr_path

\* lines 39-48: a missing path gives way to a base that holds the files
fallback_to_base(fs, base_path, cvr_path) ==
    IF /\ ~exists(fs, cvr_path) /\ ~is_dir(fs, cvr_path)
       /\ is_dir(fs, base_path)
       /\ \/ exists(fs, join(base_path, CvrExportJson))
          \/ exists(fs, join(base_path, CandidateManifestJson))
    THEN base_path
    ELSE cvr_path

\* resolve_cvr_path, lines 20-51
resolve_cvr_path(fs, base_path, cvr_name) ==
    fallback_to_base(fs, base_path,
                     zip_to_directory(fs, start_path(base_path, cvr_name)))

Directory(p) == [source |-> "Directory", path |-> p]
Zip(p) == [source |-> "Zip", path |-> p]
NotFound == [source |-> "NotFound", path |-> << >>]

\* detect_cvr_source, lines 54-62
detect_cvr_source(fs, cvr_path) ==
    IF is_dir(fs, cvr_path) THEN Directory(cvr_path)
    ELSE IF exists(fs, cvr_path) THEN Zip(cvr_path)
    ELSE NotFound

----------------------------------------------------------------------------
(* The inputs of the path resolution *)

PathBases == { <<98>>, <<122, 46, 122, 105, 112>> }
PathCvrs == { <<46>>, <<99>>, <<99, 46, 122, 105, 112>> }

\* the paths the resolution looks at
PathsLookedAt(base, cvr) ==
    { base, with_extension_empty(base),
      start_path(base, cvr), with_extension_empty(start_path(base, cvr)),
      join(base, CvrExportJson), join(base, CandidateManifestJson) }

\* whatever the paths looked at hold; a path below base implies the directory base
PathInputs ==
    { [base_path |-> b, cvr_name |-> c, fs |-> [dirs |-> d, files |-> f]] :
        b \in PathBases, c \in PathCvrs,
        d \in SUBSET PathsLookedAt(<<98>>, <<99, 46, 122, 105, 112>>) \cup SUBSET PathsLookedAt(<<122, 46, 122, 105, 112>>, <<99, 46, 122, 105, 112>>),
        f \in SUBSET PathsLookedAt(<<98>>, <<99, 46, 122, 105, 112>>) \cup SUBSET PathsLookedAt(<<122, 46, 122, 105, 112>>, <<99, 46, 122, 105, 112>>) }

PathInit ==
    /\ path_input \in PathInputs
    /\ path_input.fs.dirs \cup path_input.fs.files
          \subseteq PathsLookedAt(path_input.base_path, path_input.cvr_name)
    /\ path_input.fs.dirs \cap path_input.fs.files = {}
    /\ \A p \in path_input.fs.dirs \cup path_input.fs.files :
          starts_with(p, path_input.base_path \o <<Slash>>)
             => path_input.base_path \in path_input.fs.dirs
    /\ path_resolved = << >>
    /\ PipeIdle /\ NycIdle /\ NistIdle /\ RcrIdle /\ MeIdle
    /\ MplsIdle /\ BalIdle /\ CsvIdle

\* a call of resolve_cvr_path
call_resolve_cvr_path ==
    /\ path_resolved = << >>
    /\ path_resolved' = <<resolve_cvr_path(path_input.fs, path_input.base_path,
                                           path_input.cvr_name)>>
    /\ UNCHANGED path_input

\* a call of detect_cvr_source on the resolved path
call_detect_cvr_source ==
    /\ Len(path_resolved) = 1
    /\ path_resolved' = Append(path_resolved,
                               detect_cvr_source(path_input.fs, path_resolved[1]))
    /\ UNCHANGED path_input

PathNext ==
    \/ call_resolve_cvr_path /\ UNCHANGED notPathVars
    \/ call_detect_cvr_source /\ UNCHANGED notPathVars

SpecPath == PathInit /\ [][PathNext]_vars

----------------------------------------------------------------------------
(* The CSV mark extraction of formats/nist_sp_1500/csv_parser.rs *)

\* str::trim_matches(c): c removed from both ends, as often as it stands there
RECURSIVE trim_matches(_, _)
trim_matches(s, c) ==
    IF s # << >> /\ Head(s) = c THEN trim_matches(Tail(s), c)
    ELSE IF s # << >> /\ s[Len(s)] = c THEN trim_matches(SubSeq(s, 1, Len(s) - 1), c)
    ELSE s

\* record.get(col_idx), columns counted from 0
get(record, col_idx) ==
    IF col_idx + 1 <= Len(record) THEN Some(record[col_idx + 1]) ELSE << >>

\* lines 222-224 and 352-354: the number of a cell, if it holds one that is
\* not written "0"
cell_value(cell) ==
    LET value_str == trim(trim_matches(trim_matches(cell, 61), 34))
    IN IF value_str # << >> /\ value_str # <<48>> THEN parse_u32(value_str) ELSE << >>

\* a map rank -> candidate_id -> column_index is the set of its
\* (rank, candidate_id, col_idx) entries; the marks returned are taken as a
\* set, the order of a HashMap iteration being unspecified

\* CsvContestMapping::extract_marks, lines 216-235
extract_marks(rank_candidate_map, record) ==
    { <<e[2], e[1]>> : e \in
        { e \in rank_candidate_map :
            /\ get(record, e[3]) # << >>
            /\ cell_value(get(record, e[3])[1]) # << >>
            /\ cell_value(get(record, e[3])[1])[1] > 0
            /\ cell_value(get(record, e[3])[1])[1] = e[1] } }

\* CsvBatchMappings::extract_marks_for_contest, lines 341-366
extract_marks_for_contest(contest_column_maps, contest_id, record) ==
    IF contest_id \in DOMAIN contest_column_maps
    THEN { <<e[2], e[1]>> : e \in
             { e \in contest_column_maps[contest_id] :
                 /\ get(record, e[3]) # << >>
                 /\ cell_value(get(record, e[3])[1]) # << >>
                 /\ cell_value(get(record, e[3])[1])[1] > 0 } }
    ELSE {}

----------------------------------------------------------------------------
(* The inputs of the CSV mark extraction *)

\* candidates 101 and 102 of the contest, rank 1 in columns 2 and 3 and
\* rank 2 in columns 4 and 5
CsvRankCandidateMap == { <<1, 101, 2>>, <<1, 102, 3>>, <<2, 101, 4>>, <<2, 102, 5>> }

\* the cells of a record: ranks bare, quoted as ="1", with a blank, 0, empty
\* and text
CsvCells == { <<49>>, <<50>>, <<48>>, <<>>, <<61, 34, 49, 34>>, <<32, 50>>, <<120>> }

\* records of six columns, and records that end after column 3
CsvRecords ==
    { <<<<105, 100>>, <<120>>>> \o cells : cells \in [1..4 -> CsvCells] \cup [1..2 -> CsvCells] }

CsvInit ==
    /\ csv_input \in { [contest_id |-> 1, rank_candidate_map |-> CsvRankCandidateMap,
                        record |-> r] : r \in CsvRecords }
    /\ csv_marks = << >>
    /\ PipeIdle /\ NycIdle /\ NistIdle /\ RcrIdle /\ MeIdle
    /\ MplsIdle /\ BalIdle /\ PathIdle

\* a call of CsvContestMapping::extract_marks with the map of the contest
call_extract_marks ==
    /\ \A i \in 1..Len(csv_marks) : csv_marks[i].by # "extract_marks"
    /\ csv_marks' = Append(csv_marks,
                           [by |-> "extract_marks",
                            marks |-> extract_marks(csv_input.rank_candidate_map,
                                                    csv_input.record)])
    /\ UNCHANGED csv_input

\* a call of CsvBatchMappings::extract_marks_for_contest, the batch mappings
\* holding the same map for the contest
call_extract_marks_for_contest ==
    /\ \A i \in 1..Len(csv_marks) : csv_marks[i].by # "extract_marks_for_contest"
    /\ csv_marks' = Append(csv_marks,
                           [by |-> "extract_marks_for_contest",
                            marks |-> extract_marks_for_contest(
                                          [c \in {csv_input.contest_id} |->
                                              csv_input.rank_candidate_map],
                                          csv_input.contest_id, csv_input.record)])
    /\ UNCHANGED csv_input

CsvNext ==
    \/ call_extract_marks /\ UNCHANGED notCsvVars
    \/ call_extract_marks_for_contest /\ UNCHANGED notCsvVars

SpecCsv == CsvInit /\ [][CsvNext]_vars

----------------------------------------------------------------------------
(* Claims about the nyc normalizer (specification SpecNyc) *)

NycIn == nyc_election.ballots
NycOut == nyc_normalized[1].ballots

\* position p of choices is a Vote and no Overvote stands before it
VoteBeforeFirstOvervote(choices, p) ==
    /\ choices[p].kind = "Vote"
    /\ \A q \in 1..p : choices[q].kind # "Overvote"

HasVoteBeforeFirstOvervote(choices) ==
    \E p \in 1..Len(choices) : VoteBeforeFirstOvervote(choices, p)

\* the positions of the input ballots the policy keeps
KeptInputs ==
    { i \in 1..Len(NycIn) : HasVoteBeforeFirstOvervote(NycIn[i].choices) }

\* C8: normalize_election("nyc", _) outputs exactly the input ballots with a
\* Vote before their first Overvote, in input order and with their ids; so
\* every output ballot has at least one choice and the output is no longer
\* than the input.
C8_NycKeepsExactlyActiveBallots ==
    nyc_normalized # << >> =>
        /\ Len(NycOut) = Cardinality(KeptInputs)
        /\ \A k \in 1..Len(NycOut) :
              \E i \in KeptInputs :
                  /\ Cardinality({ j \in KeptInputs : j < i }) = k - 1
                  /\ NycOut[k].id = NycIn[i].id
        /\ \A k \in 1..Len(NycOut) : Len(NycOut[k].choices) >= 1
        /\ Len(NycOut) <= Len(NycIn)
        /\ nyc_normalized[1].candidates = nyc_election.candidates

\* a dropped ballot (an Overvote before any Vote) followed by a kept one
C8_Witness ==
    /\ nyc_normalized # << >>
    /\ Len(NycIn) = 2
    /\ NycIn[1].choices = <<Undervote, Overvote, Vote(0)>>
    /\ NycIn[2].choices = <<Undervote, Vote(1)>>
    /\ Len(NycOut) = 1
    /\ NycOut[1].id = NycIn[2].id

\* the first position of candidate v in choices
FirstOccurrence(choices, v) ==
    CHOOSE p \in 1..Len(choices) :
        /\ choices[p] = Vote(v)
        /\ \A q \in 1..(p - 1) : choices[q] # Vote(v)

\* C9: the choices of a kept ballot are the distinct candidates voted before
\* the first Overvote, in order of first occurrence, and overvoted is true
\* exactly when the input ballot holds an Overvote.
C9_NycChoicesDistinctBeforeOvervote ==
    nyc_normalized # << >> =>
        \A k \in 1..Len(NycOut) :
            LET input == (CHOOSE i \in 1..Len(NycIn) : NycIn[i].id = NycOut[k].id)
                cs == NycIn[input].choices
                o == NycOut[k].choices
            IN /\ \A a, b \in 1..Len(o) : a # b => o[a] # o[b]
               /\ { o[a] : a \in 1..Len(o) }
                     = { cs[p].id : p \in { q \in 1..Len(cs) :
                                              VoteBeforeFirstOvervote(cs, q) } }
               /\ \A a, b \in 1..Len(o) :
                     a < b => FirstOccurrence(cs, o[a]) < FirstOccurrence(cs, o[b])
               /\ NycOut[k].overvoted
                     <=> \E p \in 1..Len(cs) : cs[p].kind = "Overvote"

\* one ballot cut at its Overvote, one with a repeated candidate
C9_Witness ==
    /\ nyc_normalized # << >>
    /\ Len(NycIn) = 2
    /\ NycIn[1].choices = <<Vote(0), Overvote, Vote(1)>>
    /\ NycIn[2].choices = <<Vote(1), Vote(0), Vote(1)>>
    /\ Len(NycOut) = 2
    /\ NycOut[1].choices = <<0>> /\ NycOut[1].overvoted
    /\ NycOut[2].choices = <<1, 0>> /\ ~NycOut[2].overvoted

----------------------------------------------------------------------------
(* Claims about the cache policy (specification Spec) *)

\* the closure of contest ck has run in the running invocation
Processed(ck) == before[ck] # << >>

\* the calls the closure of contest ck made
Calls(ck) == { ops[ck][i] : i \in 1..Len(ops[ck]) }

SeenReport(ck) == before[ck][1].report_file
SeenPreprocessed(ck) == before[ck][1].preprocessed_file

\* C1: for every contest, when report.json and normalized.json.gz both exist
\* and no force flag is set, the report is read from report.json and reused
\* for the index entry; generate_report is not called and no cache file is
\* written. (Stated for every contest of the metadata, on both paths.)
C1_CacheHitReusesReport ==
    \A ck \in AllContests :
        ( /\ Processed(ck)
          /\ ~force_preprocess /\ ~force_report
          /\ SeenReport(ck) # NoFile /\ SeenPreprocessed(ck) # NoFile )
        => /\ "read_report" \in Calls(ck)
           /\ entry_of[ck] = Some(ContestIndexEntry(SeenReport(ck)[1]))
           /\ Calls(ck) \cap {"preprocess", "write_preprocessed",
                              "generate_report", "write_report"} = {}
           /\ pc = "running" =>
                 /\ report_files[FileKey(ck)] = SeenReport(ck)
                 /\ preprocessed_files[FileKey(ck)] = SeenPreprocessed(ck)

\* C2: for every contest, when normalized.json.gz exists, force_preprocess is
\* not set and report.json is missing or force_report is set, the preprocessed
\* ballots are loaded from the cache, normalized.json.gz is not rewritten, and
\* the report is regenerated from the cached ballots and written.
C2_PreprocessedCacheReused ==
    \A ck \in AllContests :
        ( /\ Processed(ck)
          /\ ~force_preprocess
          /\ SeenPreprocessed(ck) # NoFile
          /\ (SeenReport(ck) = NoFile \/ force_report) )
        => /\ ops[ck] = <<"read_preprocessed", "generate_report", "write_report">>
           /\ entry_of[ck] =
                 Some(ContestIndexEntry(generate_report(SeenPreprocessed(ck)[1])))
           /\ pc = "running" =>
                 /\ preprocessed_files[FileKey(ck)] = SeenPreprocessed(ck)
                 /\ report_files[FileKey(ck)] =
                       Some(generate_report(SeenPreprocessed(ck)[1]))

\* C3: on both paths, whenever the preprocessed ballots of a contest are
\* regenerated, normalized.json.gz is written first and then the report is
\* regenerated from it and written, even if report.json exists and
\* force_report is not set.
C3_RegeneratedPreprocessedRegeneratesReport ==
    \A ck \in AllContests :
        ( Processed(ck) /\ "preprocess" \in Calls(ck) )
        => /\ ops[ck] = <<"preprocess", "write_preprocessed",
                          "generate_report", "write_report">>
           /\ entry_of[ck] = Some(ContestIndexEntry(
                                generate_report(preprocess_election(TheContest(ck)))))
           /\ pc = "running" =>
                 report_files[FileKey(ck)] =
                    Some(generate_report(preprocess_election(TheContest(ck))))

\* the running invocation repeats the previous one: no force flag in either,
\* no file deleted in between
SecondOfTwoPlainRuns ==
    /\ prev_run.runs >= 1
    /\ ~prev_run.flags
    /\ prev_run.deleted = {}
    /\ pc \in {"running", "done"}
    /\ ~force_preprocess /\ ~force_report

----------------------------------------------------------------------------
(* Claims about index.json (specification SpecIndex) *)

\* every election of the metadata, as the key (date, path) of its index entry
MetadataKeys ==
    { <<TheElection(j, e).date, format_path(jurisdictions[j].path, TheElection(j, e).path)>> :
        <<j, e>> \in { je \in (1..2) \X (1..2) : je[1] \in JIdx /\ je[2] \in EIdx(je[1]) } }

\* C10: the elections of index.json are in descending order of (date, path),
\* and the order is the same for every scheduling of the jurisdiction
\* workers: the list holds each election of the metadata once, and its order
\* is a function of the keys alone.
C10_IndexSortedDescending ==
    pc = "done" =>
        LET elections == index_json[1]
        IN /\ \A i \in 1..Len(elections) : \A k \in (i + 1)..Len(elections) :
                 KeyLess(elections[k], elections[i])
           /\ { <<elections[i].date, elections[i].path>> : i \in 1..Len(elections) }
                 = MetadataKeys
           /\ Len(elections) = Cardinality(MetadataKeys)

\* an index of three elections of two dates, in which an election of the
\* second jurisdiction comes first
C10_Witness ==
    /\ pc = "done"
    /\ Len(index_json[1]) = 3
    /\ index_json[1][1].date # index_json[1][3].date
    /\ index_json[1][1].path = format_path(<<97, 98>>, <<49>>)
    /\ index_json[1][2].path = format_path(<<97>>, <<49>>)

----------------------------------------------------------------------------
(* Claims about the jurisdiction filter (specification SpecFilter) *)

\* the jurisdictions whose path equals the filter of the invocation
Matching == { j \in JIdx : jurisdictions[j].path = jurisdiction_filter[1] }

\* the paths of the elections of a set of jurisdictions, as index.json names them
ElectionPaths(js) ==
    { format_path(jurisdictions[je[1]].path, TheElection(je[1], je[2]).path) :
        je \in { je \in (1..2) \X (1..2) : je[1] \in js /\ je[2] \in EIdx(je[1]) } }

\* C11: an invocation with a jurisdiction filter processes exactly the
\* jurisdictions whose path equals the filter: only they have a worker, no
\* contest of another jurisdiction is started and no call touches its cache
\* files, every contest of a matching jurisdiction has been started when the
\* invocation ends, and the index it writes lists exactly the elections of
\* the matching jurisdictions.
C11_FilterProcessesMatchingOnly ==
    (jurisdiction_filter # << >> /\ pc \in {"running", "done"}) =>
        /\ DOMAIN worker = Matching
        /\ \A ck \in ContestKeys :
              ck[1] \notin Matching => ~Processed(ck) /\ ops[ck] = << >>
        /\ (pc = "done" /\ Matching # {}) =>
              /\ \A ck \in AllContests : ck[1] \in Matching => Processed(ck)
              /\ index_json # NoFile
              /\ { index_json[1][i].path : i \in 1..Len(index_json[1]) }
                    = ElectionPaths(Matching)
              /\ Len(index_json[1]) = Cardinality(ElectionPaths(Matching))

\* a filtered invocation over old cache files of both jurisdictions has ended:
\* it regenerated a report of the matching jurisdiction and left the other
\* jurisdiction out of the index
C11_Witness ==
    /\ pc = "done"
    /\ jurisdiction_filter = Some(<<97, 98>>)
    /\ Matching = {2}
    /\ \E ck \in AllContests : ck[1] = 2 /\ "write_report" \in Calls(ck)
    /\ report_files[FileKey(<<1, 1, 1>>)] # NoFile
    /\ Len(index_json[1]) = 2

----------------------------------------------------------------------------
(* Claims about the choice of path (specification SpecCvr) *)

\* batch eligible: a NIST election of more than one contest whose contests
\* share one cvr param that is present and not empty
BatchEligible(election) ==
    /\ election.data_format = "nist_sp_1500"
    /\ Len(election.contests) > 1
    /\ \A i \in 1..Len(election.contests) :
          election.contests[i].cvr = election.contests[1].cvr
    /\ election.contests[1].cvr # NoParam
    /\ election.contests[1].cvr # ""

\* C16: an election is on the batch path exactly when it is batch eligible;
\* otherwise its contests go through process_contest one after the other in
\* metadata order.
C16_BatchPathIffEligible ==
    \A j \in DOMAIN worker :
        worker[j].phase \in {"batch", "contests"} =>
            LET election == TheElection(j, worker[j].e)
            IN /\ worker[j].phase = "batch" <=> BatchEligible(election)
               /\ \A c \in 1..Len(election.contests) :
                     Processed(<<j, worker[j].e, c>>) <=> c <= worker[j].k

----------------------------------------------------------------------------
(* Claims about unreadable cache files (specification SpecCache) *)

\* the closure of contest ck read a cache file that cannot be deserialized
ReadFailedReport(ck) ==
    /\ Processed(ck)
    /\ "read_report" \in Calls(ck)
    /\ before[ck][1].report_file = Some(Corrupt)

ReadFailedPreprocessed(ck) ==
    /\ Processed(ck)
    /\ "read_preprocessed" \in Calls(ck)
    /\ before[ck][1].preprocessed_file = Some(Corrupt)

\* C12: when reading an existing cache file fails the contest is not
\* aborted: its worker goes on, and the contest ends as if the file had been
\* absent, with the artifact regenerated and an index entry returned.
C12_ReadFailureFallsThrough ==
    \A ck \in AllContests :
        /\ ReadFailedReport(ck) =>
              /\ worker[ck[1]].phase # "panicked"
              /\ {"generate_report", "write_report"} \subseteq Calls(ck)
              /\ entry_of[ck] # NoEntry
        /\ ReadFailedPreprocessed(ck) =>
              /\ worker[ck[1]].phase # "panicked"
              /\ {"preprocess", "write_preprocessed"} \subseteq Calls(ck)
              /\ entry_of[ck] # NoEntry

----------------------------------------------------------------------------
(* Claims about the Maine adapter (specification SpecMe) *)

\* the candidate names the files hold, file after file in the order of the
\* `files` parameter, within a file in the order in which its rows name them
MeDiscovered == flatten([i \in 1..Len(me_files) |-> read_workbook(me_files[i])[2]])

\* the position at which a name is discovered first
MeFirst(name) ==
    CHOOSE p \in 1..Len(MeDiscovered) :
        /\ MeDiscovered[p] = name
        /\ \A q \in 1..(p - 1) : MeDiscovered[q] # name

\* C15: whatever the order in which the per-file workers complete, the
\* Election is the same function of the files: its ballots are those of the
\* files in the order of the `files` parameter, and its candidates are the
\* discovered names, each once, in the order of their first discovery.
C15_MaineMergeDeterministic ==
    me_election # << >> =>
        LET candidates == me_election[1].candidates
        IN /\ me_election[1].ballots
                 = flatten([i \in 1..Len(me_files) |-> read_workbook(me_files[i])[1]])
           /\ { candidates[c].name : c \in 1..Len(candidates) }
                 = { MeDiscovered[p] : p \in 1..Len(MeDiscovered) }
           /\ \A c \in 1..Len(candidates) : \A d \in (c + 1)..Len(candidates) :
                 MeFirst(candidates[c].name) < MeFirst(candidates[d].name)
           /\ \A c \in 1..Len(candidates) : candidates[c].candidate_type = "Regular"

\* the worker of the second file completed first; both files name Bob, each
\* names a candidate of its own
C15_Witness ==
    /\ me_election # << >>
    /\ me_order = <<2, 1>>
    /\ me_files[1] = << Row(1, <<"DEM ALICE">>, <<"BOB (12)">>, << >>) >>
    /\ me_files[2] = << Row(1, <<"REP CAROL (3)">>, <<"undervote">>, <<"BOB">>) >>
    /\ me_election[1].candidates
          = << Candidate("Alice", "Regular"), Candidate("Bob", "Regular"),
               Candidate("Carol", "Regular") >>
    /\ Len(me_election[1].ballots) = 2

----------------------------------------------------------------------------
(* Claims about the NIST readers (specification SpecNist) *)

\* the contest read alone, its id, and the two Elections to compare
SingleContest == nist_single[1].contest
SingleId == nist_contests[SingleContest][1]
SingleElection == nist_single[1].election
BatchMap == nist_batch[1]

\* the multiset of the elements of a sequence
BagOf(seq) ==
    [x \in { seq[i] : i \in 1..Len(seq) } |->
        Cardinality({ i \in 1..Len(seq) : seq[i] = x })]

BatchReads == nist_path.kind = "dir" /\ nist_path.manifest # << >>

\* the contest read alone is the one whose bucket the batch map keeps under
\* its id: the last of the list with that id, or one with the same flag
KeepsBucket ==
    \/ \A k \in (SingleContest + 1)..Len(nist_contests) :
          nist_contests[k][1] # SingleId
    \/ \A k \in 1..Len(nist_contests) :
          nist_contests[k][1] = SingleId
              => nist_contests[k][2].dropUnqualifiedWriteIn
                    = nist_contests[SingleContest][2].dropUnqualifiedWriteIn

FailingFiles ==
    { nist_path.entries[i].name : i \in
        { i \in 1..Len(nist_path.entries) :
            /\ starts_with(nist_path.entries[i].name, CvrExportPrefix)
            /\ nist_path.entries[i].content = << >> } }

\* the source without its failing files
WithoutFailingFiles ==
    [nist_path EXCEPT !.entries = SelectSeq(@, LAMBDA e : e.name \notin FailingFiles)]

\* C13: a CvrExport file that cannot be opened, read or parsed contributes no
\* ballot, and the ballots of the other files are those of a read of the
\* source without the failing file; the reader still returns an Election.
\* The same holds of every Election of the batch map.
C13_FailingFileContributesNothing ==
    /\ nist_single # << >> =>
          /\ SingleElection
                = nist_ballot_reader(WithoutFailingFiles, nist_contests[SingleContest][2])
          /\ DOMAIN SingleElection = {"candidates", "ballots"}
          /\ \A b \in 1..Len(SingleElection.ballots) : \A f \in FailingFiles :
                ~starts_with(SingleElection.ballots[b].id, f)
    /\ nist_batch # << >> =>
          /\ BatchMap = nist_batch_reader(WithoutFailingFiles, nist_contests)
          /\ \A id \in DOMAIN BatchMap :
                \A b \in 1..Len(BatchMap[id].ballots) : \A f \in FailingFiles :
                   ~starts_with(BatchMap[id].ballots[b].id, f)

\* a directory whose first CvrExport file in filename order holds a ballot of
\* the contest and whose second cannot be read: the Election holds the ballot
C13_Witness ==
    /\ nist_single # << >>
    /\ nist_path.kind = "dir"
    /\ nist_path.manifest # << >>
    /\ FailingFiles = {CvrExport_2}
    /\ Len(nist_path.entries) = 3
    /\ Len(SingleElection.ballots) > 0

\* C7 for the NIST adapter: no two ballots of the Election that
\* nist_ballot_reader returns have the same id.
C7_BallotIdsUnique ==
    nist_single # << >> =>
        \A i, k \in 1..Len(SingleElection.ballots) :
            i # k => SingleElection.ballots[i].id # SingleElection.ballots[k].id

\* the file name of a ballot id "<filename>:<record_id>"
FileOf(id) ==
    SubSeq(id, 1, (CHOOSE p \in 1..Len(id) :
                      id[p] = Colon /\ \A q \in 1..(p - 1) : id[q] # Colon) - 1)

\* the record ids of the sessions of a file, in session order, each as many
\* times as the session has blocks of the contest
RecordIdsOf(content, contest_id) ==
    flatten([s \in 1..Len(content.sessions) |->
                [x \in 1..Cardinality({ b \in 1..Len(content.sessions[s].contests) :
                                          content.sessions[s].contests[b].id = contest_id }) |->
                    content.sessions[s].record_id]])

\* the ballots are in ascending order of the name of their file, and those
\* of one file are those of its sessions, in session order
InFileAndSessionOrder(ballots, contest_id) ==
    /\ \A p \in 1..Len(ballots) : \A q \in (p + 1)..Len(ballots) :
          ~StrLess(FileOf(ballots[q].id), FileOf(ballots[p].id))
    /\ \A e \in 1..Len(nist_path.entries) :
          LET entry == nist_path.entries[e]
              ids == IF entry.content = << >> THEN << >>
                     ELSE RecordIdsOf(entry.content[1], contest_id)
              of_file == SelectSeq(ballots, LAMBDA b : FileOf(b.id) = entry.name)
          IN [k \in 1..Len(of_file) |-> of_file[k].id]
                = [k \in 1..Len(ids) |-> ballot_id(entry.name, ids[k])]

\* C20: the ballots of an Election read from a directory are in ascending
\* filename order of their CvrExport files and, within a file, in the order
\* of its sessions; so are the ballots of every Election of the batch map.
C20_BallotsInFileAndSessionOrder ==
    /\ (nist_single # << >> /\ nist_path.kind = "dir" /\ nist_path.manifest # << >>) =>
          InFileAndSessionOrder(SingleElection.ballots, SingleId)
    /\ nist_batch # << >> =>
          \A id \in DOMAIN BatchMap : InFileAndSessionOrder(BatchMap[id].ballots, id)

\* a directory that lists CvrExport_2.json before CvrExport_1.json: the two
\* ballots of the two sessions of CvrExport_1.json come first
C20_Witness ==
    /\ nist_single # << >>
    /\ nist_path.kind = "dir"
    /\ nist_path.manifest # << >>
    /\ Len(nist_path.entries) = 3
    /\ nist_path.entries[1].name = CvrExport_2
    /\ Len(SingleElection.ballots) = 3
    /\ SingleElection.ballots[1].id = ballot_id(CvrExport_1, 1)
    /\ SingleElection.ballots[2].id = ballot_id(CvrExport_1, 2)
    /\ FileOf(SingleElection.ballots[3].id) = CvrExport_2

----------------------------------------------------------------------------
(* Claims about the per-rank reduction (specification SpecMarks) *)

\* the marks of the block, whether the unqualified write-in is dropped, and
\* the choices the two readers made of the block
BlockMarks == nist_path.entries[1].content[1].sessions[1].contests[1].marks
BlockDrops == nist_contests[1][2].dropUnqualifiedWriteIn
SingleChoices == SingleElection.ballots[1].choices
BatchChoices == BatchMap[1].ballots[1].choices

\* the distinct ranks of the block and the k-th of them in ascending order
BlockRanks == { BlockMarks[i].rank : i \in 1..Len(BlockMarks) }
NthRank(k) == CHOOSE r \in BlockRanks : Cardinality({ x \in BlockRanks : x < r }) = k - 1

\* the non-ambiguous marks of a rank
Remaining(r) == SelectSeq(BlockMarks, LAMBDA d : d.rank = r /\ ~d.is_ambiguous)

\* the candidates of contest 1 that the manifest lists and the params keep,
\* in manifest order; the internal id of a candidate is its position, from 0
KeptIds ==
    LET kept == SelectSeq(CandidateManifest,
                          LAMBDA c : /\ c.contest_id = 1
                                     /\ ~(BlockDrops /\ c.candidate_type = "WriteIn"))
    IN [i \in 1..Len(kept) |-> kept[i].id]

InternalId(candidate_id) ==
    (CHOOSE i \in 1..Len(KeptIds) : KeptIds[i] = candidate_id) - 1

\* the unqualified write-ins of contest 1 when they are dropped
DroppedWriteIns ==
    { CandidateManifest[i].id : i \in
        { i \in 1..Len(CandidateManifest) :
            /\ BlockDrops
            /\ CandidateManifest[i].contest_id = 1
            /\ CandidateManifest[i].candidate_type = "WriteIn" } }

\* every mark of the block names a candidate the manifest lists for contest 1
MarksOfContest ==
    \A i \in 1..Len(BlockMarks) :
        BlockMarks[i].candidate_id \in
            { KeptIds[k] : k \in 1..Len(KeptIds) } \cup DroppedWriteIns

\* the choice of a rank
RankChoice(r) ==
    IF Len(Remaining(r)) = 0 THEN Undervote
    ELSE IF Len(Remaining(r)) >= 2 THEN Overvote
    ELSE IF Remaining(r)[1].candidate_id \in DroppedWriteIns THEN Undervote
    ELSE Vote(InternalId(Remaining(r)[1].candidate_id))

\* the choices of a block rank by rank
RankChoices(choices) ==
    \A k \in 1..Cardinality(BlockRanks) :
        /\ k <= Len(choices)
        /\ choices[k] = RankChoice(NthRank(k))

\* C17: for a block whose marks name candidates of the contest, both readers
\* emit for a rank Undervote when no non-ambiguous mark remains at the rank
\* or the one that remains is of the dropped write-in, the Vote of the
\* candidate's internal id when one other mark remains, and Overvote when
\* two or more remain; ranks after an Overvote get their choice as well.
C17_PerRankReduction ==
    /\ (nist_single # << >> /\ MarksOfContest) => RankChoices(SingleChoices)
    /\ (nist_batch # << >> /\ MarksOfContest) => RankChoices(BatchChoices)

\* one choice per distinct rank, in ascending order of rank: the k-th choice
\* is of the kind that the number of remaining marks of the k-th rank asks for
OnePerRankAscending(choices) ==
    /\ Len(choices) = Cardinality(BlockRanks)
    /\ \A k \in 1..Len(choices) :
          /\ Len(Remaining(NthRank(k))) = 0 => choices[k] = Undervote
          /\ Len(Remaining(NthRank(k))) >= 2 => choices[k] = Overvote
          /\ Len(Remaining(NthRank(k))) = 1 => choices[k] # Overvote

\* C18: whatever the order in which the marks of a block are listed, both
\* readers emit exactly one Choice per distinct rank of the marks, in
\* ascending order of rank.
C18_OneChoicePerRankAscending ==
    /\ nist_single # << >> => OnePerRankAscending(SingleChoices)
    /\ nist_batch # << >> => OnePerRankAscending(BatchChoices)

\* C19: no reader looks up in the candidate map of the contest a candidate
\* id that get_candidates did not insert: no choice is the answer of the map
\* for an unknown key.
C19_NoUnknownKeyLookup ==
    /\ nist_single # << >> =>
          \A k \in 1..Len(SingleChoices) : SingleChoices[k] # UnknownKey
    /\ nist_batch # << >> =>
          \A k \in 1..Len(BatchChoices) : BatchChoices[k] # UnknownKey

----------------------------------------------------------------------------
(* Claims about the Dominion RCR adapter (specification SpecRcr) *)

\* C6 for the Dominion adapter: every Vote(id) of every ballot of the
\* Election that parse_rcr_file returns has id < number of candidates.
C6_VotesReferenceCandidates ==
    rcr_election # << >> =>
        \A b \in 1..Len(rcr_election[1].ballots) :
            \A c \in 1..Len(rcr_election[1].ballots[b].choices) :
                LET ch == rcr_election[1].ballots[b].choices[c]
                IN ch.kind = "Vote" => ch.id < Len(rcr_election[1].candidates)

\* the number of ballots of the first l lines of the file
RECURSIVE CountBefore(_)
CountBefore(l) ==
    IF l = 0 THEN 0 ELSE CountBefore(l - 1) + rcr_input.ballots[l].ballot_count

\* the choice an entry of a ballot line stands for
EntryChoice(entry) ==
    IF Len(entry) > 1 THEN Overvote
    ELSE IF entry[1] = 0 THEN Undervote ELSE Vote(entry[1] - 1)

LineChoices(l) ==
    [e \in 1..Len(rcr_input.ballots[l].entries) |->
        EntryChoice(rcr_input.ballots[l].entries[e])]

\* C21: each ballot line with count c yields c consecutive ballots with the
\* line's choices (0 is Undervote, n > 0 is Vote(n - 1), several choices
\* joined by '=' are Overvote); the Election has sum-of-counts ballots and
\* the ballot at position i has the decimal string of i as its id.
C21_CountIdenticalBallotsPerLine ==
    rcr_election # << >> =>
        LET ballots == rcr_election[1].ballots
        IN /\ Len(ballots) = CountBefore(Len(rcr_input.ballots))
           /\ \A l \in 1..Len(rcr_input.ballots) :
                 \A k \in 1..rcr_input.ballots[l].ballot_count :
                     ballots[CountBefore(l - 1) + k].choices = LineChoices(l)
           /\ \A i \in 1..Len(ballots) : ballots[i].id = to_string(i - 1)

\* a line of count 2 with an overvote entry, after a line that has ballots
C21_Witness ==
    /\ rcr_election # << >>
    /\ Len(rcr_input.ballots) = 2
    /\ rcr_input.ballots[1].ballot_count = 1
    /\ rcr_input.ballots[2].ballot_count = 2
    /\ rcr_input.ballots[2].entries = <<(<<1, 2>>), (<<0>>)>>
    /\ Len(rcr_election[1].ballots) = 3

----------------------------------------------------------------------------
(* Claims about the Minneapolis adapter (specification SpecMpls) *)

\* the rows of the file after its header, and the file cut after k of them
MplsRows == IF mpls_file.rows # << >> THEN mpls_file.rows ELSE mpls_file.records
MplsDataRows == Len(MplsRows) - 1
MplsPrefix(k) ==
    IF mpls_file.rows # << >>
    THEN XlsxFile(mpls_file.ext, SubSeq(mpls_file.rows, 1, k + 1))
    ELSE CsvFile(mpls_file.ext, SubSeq(mpls_file.records, 1, k + 1))

\* the ballots the reader holds after k rows, and those of row k alone
BallotsAfter(k) == read_file(MplsPrefix(k)).ballots
MplsRowBallots(k) ==
    SubSeq(BallotsAfter(k), Len(BallotsAfter(k - 1)) + 1, Len(BallotsAfter(k)))

\* the text of choice cell c (1, 2 or 3) of row k
ChoiceCell(k, c) ==
    IF mpls_file.rows # << >>
    THEN cell_to_string(mpls_file.rows[k + 1][c + 1])
    ELSE mpls_file.records[k + 1][c + 1]

\* the cell reads "overvote" once blanks around it are removed, in any case
ReadsOvervote(cell) == to_ascii_lowercase(trim(cell)) = OvervoteStr

MplsRead == mpls_election # << >> /\ mpls_election[1] # Panicked

\* C22: when one of the three choice cells of a row reads "overvote" (in
\* any case, blanks around it included), every ballot of the row has the
\* choices [Overvote]; otherwise every ballot of the row has three choices,
\* none of them Overvote.
C22_OvervoteCellMakesBallotOvervote ==
    MplsRead =>
        /\ mpls_election[1].ballots = BallotsAfter(MplsDataRows)
        /\ \A k \in 1..MplsDataRows :
              Len(MplsRows[k + 1]) >= 5 =>
                 \A b \in 1..Len(MplsRowBallots(k)) :
                    IF \E c \in 1..3 : ReadsOvervote(ChoiceCell(k, c))
                    THEN MplsRowBallots(k)[b].choices = <<Overvote>>
                    ELSE /\ Len(MplsRowBallots(k)[b].choices) = 3
                         /\ \A c \in 1..3 : MplsRowBallots(k)[b].choices[c] # Overvote

\* the count cell of row k: its kind and text
CountCell(k) ==
    IF mpls_file.rows # << >> THEN mpls_file.rows[k + 1][5]
    ELSE DataString(mpls_file.records[k + 1][5])

\* the text is a whole number, with or without sign
IsNumber(s) ==
    LET digits == IF s # << >> /\ Head(s) \in {43, 45} THEN Tail(s) ELSE s
    IN digits # << >> /\ \A i \in 1..Len(digits) : digits[i] \in 48..57

NumberOf(s) ==
    IF Head(s) = 45 THEN 0 - digits_value(Tail(s))
    ELSE IF Head(s) = 43 THEN digits_value(Tail(s))
    ELSE digits_value(s)

\* the number of ballots the count cell asks for: 1 for a cell that is zero,
\* negative or no number, n for a positive whole number n, and any positive
\* number for a positive fraction
RequiredBallots(cell, n) ==
    CASE cell.data = "Int" -> n = (IF cell.n <= 0 THEN 1 ELSE cell.n)
      [] cell.data = "Float" ->
            IF cell.n <= 0 THEN n = 1
            ELSE IF cell.n % 2 = 0 THEN n = cell.n \div 2
            ELSE n >= 1
      [] cell.data = "String" ->
            n = (IF IsNumber(cell.s) /\ NumberOf(cell.s) > 0 THEN NumberOf(cell.s) ELSE 1)
      [] OTHER -> n = 1

\* C23: a row whose count cell is zero, negative or not a number yields one
\* ballot, a row with a positive count n yields n ballots, and no row of at
\* least 5 columns yields no ballot (CSV and spreadsheet readers).
C23_CountDefaultsToOne ==
    MplsRead =>
        \A k \in 1..MplsDataRows :
            Len(MplsRows[k + 1]) >= 5 =>
                /\ RequiredBallots(CountCell(k), Len(MplsRowBallots(k)))
                /\ Len(MplsRowBallots(k)) >= 1

----------------------------------------------------------------------------
(* Claims about the mark reduction of ballot.rs (specification SpecBal) *)

\* the marks handed over, each with candidate, rank and ambiguity
BalMarks ==
    IF bal_input.entry = "json" THEN bal_input.marks
    ELSE [i \in 1..Len(bal_input.marks) |->
             Mark(bal_input.marks[i][1], bal_input.marks[i][2], FALSE)]

BalMap == BalCandidates(bal_input.dropped_write_in)

\* the marks left once the ambiguous ones and those of the dropped write-in
\* are removed, and those of them at rank r
BalRemaining ==
    SelectSeq(BalMarks, LAMBDA m : /\ ~m.is_ambiguous
                                   /\ <<m.candidate_id>> # bal_input.dropped_write_in)
BalAtRank(r) == SelectSeq(BalRemaining, LAMBDA m : m.rank = r)

\* the distinct ranks of the remaining marks, and the k-th in ascending order
BalRanks == { BalRemaining[i].rank : i \in 1..Len(BalRemaining) }
BalNthRank(k) == CHOOSE r \in BalRanks : Cardinality({ x \in BalRanks : x < r }) = k - 1

\* every remaining mark names a candidate of the map
BalMarksKnown == \A i \in 1..Len(BalRemaining) : has_key(BalMap, BalRemaining[i].candidate_id)

BalInternalId(candidate_id) ==
    (CHOOSE i \in 1..Len(BalMap) : BalMap[i].key = candidate_id) - 1

C28_JsonMarksAgreeWithInlinedReduction ==
    (bal_choices # << >> /\ bal_input.entry = "json") =>
        /\ bal_choices[1] = stream_choices([marks |-> bal_input.marks], BalMap,
                                           bal_input.dropped_write_in)
        /\ bal_choices[1] = batch_choices([marks |-> bal_input.marks], BalMap,
                                          bal_input.dropped_write_in)

----------------------------------------------------------------------------
(* Claims about the path resolution (specification SpecPath) *)

PathFs == path_input.fs
PathBase == path_input.base_path
PathJoined == join(path_input.base_path, path_input.cvr_name)
PathStart == IF path_input.cvr_name = <<46>> THEN PathBase ELSE PathJoined

BaseHoldsFiles ==
    /\ is_dir(PathFs, PathBase)
    /\ \/ exists(PathFs, join(PathBase, CvrExportJson))
       \/ exists(PathFs, join(PathBase, CandidateManifestJson))

\* the result of the rules applied to the path p the resolution starts from
ResolvedFrom(p) ==
    IF exists(PathFs, p) THEN p
    ELSE IF ends_with(p, ZipSuffix) /\ is_dir(PathFs, with_extension_empty(p))
    THEN with_extension_empty(p)
    ELSE IF BaseHoldsFiles THEN PathBase
    ELSE p

\* detect_cvr_source classifies the resolved path
Classified ==
    Len(path_resolved) = 2 =>
        path_resolved[2] =
           IF is_dir(PathFs, path_resolved[1]) THEN Directory(path_resolved[1])
           ELSE IF exists(PathFs, path_resolved[1]) THEN Zip(path_resolved[1])
           ELSE NotFound

\* C25 as stated: resolve_cvr_path returns base when cvr is "."; otherwise
\* base/cvr when it exists, the directory without .zip when base/cvr ends in
\* .zip and is missing, base when the path is still missing and base holds
\* CvrExport.json or CandidateManifest.json, and base/cvr in every remaining
\* case; detect_cvr_source classifies the result as Directory, Zip or NotFound.
C25_DotAlwaysReturnsBase ==
    path_resolved # << >> =>
        /\ path_resolved[1] =
              IF path_input.cvr_name = <<46>> THEN PathBase ELSE ResolvedFrom(PathJoined)
        /\ Classified

\* C25 amended: the resolution starts from base when cvr is "." and from
\* base/cvr otherwise, and the same rules apply to either start: the start
\* when it exists, the directory without .zip when the start ends in .zip and
\* is missing, base when the path is still missing and base holds one of the
\* two files, the start in every remaining case; then the classification.
C25_ResolvedFromStartPath ==
    path_resolved # << >> =>
        /\ path_resolved[1] = ResolvedFrom(PathStart)
        /\ Classified

\* cvr "." with a base z.zip that is missing beside a directory z
C25_Witness ==
    /\ Len(path_resolved) = 2
    /\ path_input.cvr_name = <<46>>
    /\ ends_with(PathBase, ZipSuffix)
    /\ ~exists(PathFs, PathBase)
    /\ path_resolved[1] = with_extension_empty(PathBase)
    /\ path_resolved[2] = Directory(with_extension_empty(PathBase))

----------------------------------------------------------------------------
(* Claims about the CSV mark extraction (specification SpecCsv) *)

MarksBy(name) ==
    (CHOOSE r \in { csv_marks[i] : i \in 1..Len(csv_marks) } : r.by = name).marks

\* the text of a cell once '=' and '"' are stripped is the number n
ReadsNumber(cell, n) ==
    LET text == trim(trim_matches(trim_matches(cell, 61), 34))
    IN /\ text # << >>
       /\ \A i \in 1..Len(text) : text[i] \in 48..57
       /\ digits_value(text) = n

\* the marks of the record: (candidate, rank) for every column of the map
\* whose cell holds the rank of the column
MarksOfRecord ==
    { <<e[2], e[1]>> : e \in
        { e \in csv_input.rank_candidate_map :
            /\ e[3] + 1 <= Len(csv_input.record)
            /\ ReadsNumber(csv_input.record[e[3] + 1], e[1]) } }

\* C30: for the same rank -> candidate -> column map and the same record,
\* extract_marks_for_contest returns the same set of marks as extract_marks:
\* a cell gives the mark (candidate, rank) exactly when, '=' and '"'
\* stripped, it is a positive integer equal to the rank of its column.
C30_BatchMarksEqualSingleMarks ==
    Len(csv_marks) = 2 =>
        /\ MarksBy("extract_marks_for_contest") = MarksBy("extract_marks")
        /\ MarksBy("extract_marks") = MarksOfRecord

----------------------------------------------------------------------------
(* Claims about the contests of an election index entry (specification Spec) *)

\* the index entry of election e of worker j lists the contests of the
\* metadata, one entry each, in metadata order
ListsEveryContest(j, e) ==
    LET contests == TheElection(j, e).contests
        entries == worker[j].election_results[e].contests
    IN /\ Len(entries) = Len(contests)
       /\ \A k \in 1..Len(entries) : entries[k].office = contests[k].office

\* C26: for every election processed without a panic, the contests of its
\* ElectionIndexEntry are one ContestIndexEntry per contest of the metadata,
\* in metadata order, on the sequential path and on the NIST batch path
\* (with a ZIP or missing cvr source, or two contests of the same id).
C26_NoContestOmitted ==
    \A j \in DOMAIN worker :
        \A e \in 1..Len(worker[j].election_results) : ListsEveryContest(j, e)

----------------------------------------------------------------------------
(* Claim about the candidate ids of the Maine adapter (specification SpecMe) *)

\* the number of ballots the files before file i contribute
RECURSIVE MeBallotsBefore(_)
MeBallotsBefore(i) ==
    IF i <= 1 THEN 0 ELSE MeBallotsBefore(i - 1) + Len(me_files[i - 1])

\* column c of row r of file i names a candidate
MeNamesCandidate(i, r, c) ==
    /\ me_files[i][r].cells[c] # << >>
    /\ me_files[i][r].cells[c][1] \notin {"overvote", "undervote"}

\* the name parsed from column c of row r of file i
MeParsedName(i, r, c) == normalize_name(captures(me_files[i][r].cells[c][1]), TRUE)

\* the choice the returned Election holds for column c of row r of file i
MeChoice(i, r, c) == me_election[1].ballots[MeBallotsBefore(i) + r].choices[c]

\* the Vote at column c of row r of file i denotes the parsed candidate
MeDenotesParsed(i, r, c) ==
    LET candidates == me_election[1].candidates
        ch == MeChoice(i, r, c)
    IN /\ ch.kind = "Vote"
       /\ ch.id + 1 \in 1..Len(candidates)
       /\ candidates[ch.id + 1].name = MeParsedName(i, r, c)

\* C27: in the Election returned by maine_ballot_reader, every Vote(id)
\* denotes, in the merged candidates list, the candidate whose name was parsed
\* from the ballot's cell, for any number of files and any order in which the
\* files first mention the candidates.
C27_VotesDenoteParsedCandidate ==
    me_election # << >> =>
        \A i \in 1..Len(me_files) : \A r \in 1..Len(me_files[i]) : \A c \in 1..3 :
            MeNamesCandidate(i, r, c) => MeDenotesParsed(i, r, c)

----------------------------------------------------------------------------
(* Claim about an invocation that retains no jurisdiction (specification
   SpecFilter) *)

\* the invocation that starts with this step retains no jurisdiction
StartsWithNoneRetained ==
    /\ run' = run + 1
    /\ filtered_jurisdictions(jurisdiction_filter') = << >>

\* the invocation that retained no jurisdiction has returned and no other has
\* started
ReturnedWithNoneRetained ==
    /\ run' = run
    /\ run > 0
    /\ pc = "done"
    /\ filtered_jurisdictions(jurisdiction_filter) = << >>

\* no contest has been processed: no closure started, made a call or returned
\* an entry
NoContestProcessed ==
    /\ DOMAIN worker = {}
    /\ \A ck \in ContestKeys : ~Processed(ck) /\ ops[ck] = << >> /\ entry_of[ck] = NoEntry

\* C29: when no jurisdiction is retained, report returns without processing
\* any contest and without creating or modifying any file under report_dir or
\* preprocessed_dir; an existing index.json is left unchanged. (The step that
\* starts such an invocation ends it, with no contest processed and the three
\* kinds of file as they were; until the next invocation starts, only the
\* user's deletion of a report.json changes a file.)
C29_NoneRetainedLeavesFiles ==
    [][/\ StartsWithNoneRetained =>
             /\ pc' = "done"
             /\ NoContestProcessed'
             /\ UNCHANGED <<report_files, preprocessed_files, index_json>>
       /\ ReturnedWithNoneRetained =>
             /\ NoContestProcessed'
             /\ UNCHANGED <<preprocessed_files, index_json, pc>>
             /\ (report_files' # report_files => deleted' # deleted)]_vars

\* the second invocation, filtered to a path of no jurisdiction, has returned:
\* the index the first invocation wrote and the cache files are still there
C29_Witness ==
    /\ pc = "done"
    /\ run = 2
    /\ jurisdiction_filter = Some(<<98>>)
    /\ filtered_jurisdictions(jurisdiction_filter) = << >>
    /\ NoContestProcessed
    /\ index_json # NoFile
    /\ index_json = prev_run.index
    /\ Len(index_json[1]) > 0
    /\ \E fk \in FileKeys : report_files[fk] # NoFile /\ preprocessed_files[fk] # NoFile

====
